---- MODULE Spec2Model ----
(***************************************************************************)
(* Holiday aggregation of holidayexcel: HolidayDate / HolidayYear          *)
(* (src/holidayexcel/holidays.py), the date helpers                        *)
(* (src/holidayexcel/utils/datetime.py), scn_to_set                        *)
(* (src/holidayexcel/utils/collections.py), the entry point (src/main.py)  *)
(* and the two sheets, YearOverview and YearCalendar                       *)
(* (src/holidayexcel/excel/).                                              *)
(*                                                                         *)
(* A dtm.date is modelled by its proleptic Gregorian ordinal               *)
(* (date.toordinal()), so that date arithmetic is integer arithmetic.      *)
(* A SubdivisionResponse is modelled by its code and name.  An Optional    *)
(* value is modelled as a set with at most one element ({} is None).       *)
(***************************************************************************)
EXTENDS Integers, Sequences, FiniteSets, TLC

VARIABLES
    dates,                  \* HolidayYear._dates: date -> HolidayDate
    subdivisions,           \* HolidayYear._subdivisions: defaultdict country -> {code: subdivision}
    country_code_mapping,   \* HolidayYear._country_code_mapping (the countries stored)
    sub_task,               \* the _get_subdivisions task of each configured country
    countries_task,         \* the _get_countries task
    hol_task,               \* the _get_all_holidays task of each configured country
    running,                \* the task inside its synchronous parse loop ({} when none)
    init_pc,                \* position of HolidayYear.initialize
    main_pc,                \* position of main()
    error,                  \* the exception initialize raises ({} when none)
    calls,                  \* number of _parse_holiday_response calls made
    last,                   \* the last _parse_holiday_response call and its outcome ({} when none)
    sink,                   \* the sheets whose write_year has written to the workbook
    input,                  \* the arguments of a call of a function of utils/datetime.py
    output,                 \* the function called last and what it returned ({} when none)
    excel_pc,               \* position of the sheet object inside __init__ / write_year
    state_row_numbers,      \* YearOverview._state_row_numbers: code -> (row, entity)
    worksheet,              \* ExcelBase._worksheet: the calls the sink has received
    day_containers,         \* YearCalendar._day_containers: date -> _DayContainer
    formats                 \* the add_format calls of the sheet object and its format caches

\* the variables of the date helpers called on their own
datetime_vars == <<input, output>>

\* the variables of a sheet object (ExcelBase, YearOverview, YearCalendar)
excel_vars == <<excel_pc, state_row_numbers, worksheet, day_containers, formats>>

vars == <<dates, subdivisions, country_code_mapping, sub_task, countries_task, hol_task,
          running, init_pc, main_pc, error, calls, last, sink,
          input, output, excel_pc, state_row_numbers, worksheet, day_containers, formats>>

----------------------------------------------------------------------------
(* Bounds of the model *)

\* total number of _parse_holiday_response calls in one run
MaxCalls == 2

\* interval end points lie at most this many days outside the year
Margin == 2

\* number of HolidayResponse objects parsed before the sheets are written
MaxResponses == 2

\* the date helpers are called for the years Year - YearsBefore .. Year + YearsAfter
\* (28 consecutive years hold each of the 14 calendars a year can have)
YearsBefore == 23
YearsAfter == 4

----------------------------------------------------------------------------
(* dtm.date *)

\* the year main() builds the HolidayYear for
Year == 2024

IsLeap(y) == (y % 4 = 0 /\ y % 100 # 0) \/ (y % 400 = 0)

DaysInMonth(y, m) ==
    IF m = 2 THEN (IF IsLeap(y) THEN 29 ELSE 28)
    ELSE IF m \in {4, 6, 9, 11} THEN 30 ELSE 31

DaysBeforeYear(y) ==
    LET p == y - 1 IN p * 365 + (p \div 4) - (p \div 100) + (p \div 400)

RECURSIVE DaysBeforeMonth(_, _)
DaysBeforeMonth(y, m) ==
    IF m = 1 THEN 0 ELSE DaysBeforeMonth(y, m - 1) + DaysInMonth(y, m - 1)

\* dtm.date(y, m, d), as its ordinal
Date(y, m, d) == DaysBeforeYear(y) + DaysBeforeMonth(y, m) + d

\* date.year
YearOf(date) ==
    CHOOSE y \in (date \div 366)..((date \div 365) + 1) :
       DaysBeforeYear(y) < date /\ date <= DaysBeforeYear(y + 1)

\* date.month: the month that holds the n-th day of the year
MonthOf(date) ==
    LET y == YearOf(date)
        n == date - DaysBeforeYear(y)
        leap == IF IsLeap(y) THEN 1 ELSE 0
    IN  IF n <= 31 THEN 1
        ELSE IF n <= 59 + leap THEN 2
        ELSE IF n <= 90 + leap THEN 3
        ELSE IF n <= 120 + leap THEN 4
        ELSE IF n <= 151 + leap THEN 5
        ELSE IF n <= 181 + leap THEN 6
        ELSE IF n <= 212 + leap THEN 7
        ELSE IF n <= 243 + leap THEN 8
        ELSE IF n <= 273 + leap THEN 9
        ELSE IF n <= 304 + leap THEN 10
        ELSE IF n <= 334 + leap THEN 11
        ELSE 12

\* date.day
DayOf(date) ==
    LET y == YearOf(date) IN date - DaysBeforeYear(y) - DaysBeforeMonth(y, MonthOf(date))

\* calendar.MONDAY, calendar.SATURDAY, calendar.SUNDAY
MONDAY == 0
SATURDAY == 5
SUNDAY == 6

\* date.weekday() and calendar.weekday(year, month, day): Monday is 0
\* (the ordinal 1, the date 0001-01-01, is a Monday)
weekday(date) == (date + 6) % 7

\* isoweek.Week(year, week).monday(): week 1 is the week that holds Jan 4
WeekMonday(year, week) ==
    LET jan4 == Date(year, 1, 4) IN (jan4 - weekday(jan4)) + 7 * (week - 1)

\* isoweek.Week(year, week).sunday()
WeekSunday(year, week) == WeekMonday(year, week) + 6

\* isoweek.Week.weeks_of_year(year): the weeks 1, 2, ... of the ISO year, in order
weeks_of_year(year) ==
    [w \in 1..((WeekMonday(year + 1, 1) - WeekMonday(year, 1)) \div 7) |->
        [year |-> year, week |-> w]]

\* date.isocalendar().week
IsoWeekOf(date) ==
    LET y == YearOf(date)
        iso_year == IF date >= WeekMonday(y + 1, 1) THEN y + 1
                    ELSE IF date < WeekMonday(y, 1) THEN y - 1
                    ELSE y
    IN  ((date - WeekMonday(iso_year, 1)) \div 7) + 1

----------------------------------------------------------------------------
(* utils/datetime.py *)

Min(a, b) == IF a <= b THEN a ELSE b
Max(a, b) == IF a >= b THEN a ELSE b

\* truncate_to_year without the upper limit
truncate_to_year_LowerLimitOnly(date, year) ==
    LET min_date == Date(year, 1, 1) IN Max(date, min_date)

truncate_to_year(date, year) ==
    LET min_date == Date(year, 1, 1)
        max_date == Date(year, 12, 31)
    IN  Min(Max(date, min_date), max_date)

\* date_range that yields one date more, the day after end_date
date_range_OneTooMany(start_date, end_date, limit_to_year) ==
    LET s == IF limit_to_year # {}
             THEN truncate_to_year(start_date, CHOOSE y \in limit_to_year : TRUE)
             ELSE start_date
        e == IF limit_to_year # {}
             THEN truncate_to_year(end_date, CHOOSE y \in limit_to_year : TRUE)
             ELSE end_date
    IN  [number \in 1..((e - s) + 2) |-> s + (number - 1)]

\* date_range that leaves out end_date
date_range_WithoutEnd(start_date, end_date, limit_to_year) ==
    LET s == IF limit_to_year # {}
             THEN truncate_to_year(start_date, CHOOSE y \in limit_to_year : TRUE)
             ELSE start_date
        e == IF limit_to_year # {}
             THEN truncate_to_year(end_date, CHOOSE y \in limit_to_year : TRUE)
             ELSE end_date
    IN  [number \in 1..(e - s) |-> s + (number - 1)]

\* date_range: the sequence of dates the generator yields;
\* range(int((end_date - start_date).days) + 1) is empty when its argument is <= 0
date_range(start_date, end_date, limit_to_year) ==
    LET s == IF limit_to_year # {}
             THEN truncate_to_year(start_date, CHOOSE y \in limit_to_year : TRUE)
             ELSE start_date
        e == IF limit_to_year # {}
             THEN truncate_to_year(end_date, CHOOSE y \in limit_to_year : TRUE)
             ELSE end_date
    IN  [number \in 1..((e - s) + 1) |-> s + (number - 1)]

year_range(year) == date_range(Date(year, 1, 1), Date(year, 12, 31), {})

\* day_of_year: int(date.strftime("%j"))
day_of_year(date) == date - DaysBeforeYear(YearOf(date))

----------------------------------------------------------------------------
(* utils/collections.py *)

\* The argument of scn_to_set: None, a str, a Collection or any other object.
ArgNone == [kind |-> "None"]
ArgStr(s) == [kind |-> "str", value |-> s]
ArgCollection(S) == [kind |-> "Collection", items |-> S]
ArgObject(o) == [kind |-> "object", value |-> o]

scn_to_set(argument) ==
    IF argument.kind = "None" THEN {}
    ELSE IF argument.kind = "str" THEN {argument.value}
    ELSE IF argument.kind = "Collection" THEN argument.items
    ELSE {argument.value}

----------------------------------------------------------------------------
(* Python dict helpers *)

EmptyDict == [k \in {} |-> k]

\* dict.get(key, default)
Get(d, key, default) == IF key \in DOMAIN d THEN d[key] ELSE default

\* d[key] = value
Put(d, key, value) == [k \in (DOMAIN d) \cup {key} |-> IF k = key THEN value ELSE d[k]]

\* defaultdict.__getitem__: a missing key is inserted with the default
Touch(d, key, default) == IF key \in DOMAIN d THEN d ELSE Put(d, key, default)

----------------------------------------------------------------------------
(* enums and API types *)

GERMANY == "DE"
FRANCE == "FR"

\* openholidaysapi.HolidayType, the type of a HolidayResponse
SCHOOL == "School"
BACK_TO_SCHOOL == "BackToSchool"
END_OF_LESSONS == "EndOfLessons"
BANK == "Bank"
PUBLIC == "Public"

\* enums.HolidayType, the kind tags
EnumSCHOOL == "school"
EnumPUBLIC == "public"

\* A SubdivisionResponse as stored in the registry and in coverage entries
SubdivisionResponse(node) == [code |-> node.code, name |-> node.name]

----------------------------------------------------------------------------
(* holidays.py: HolidayDate *)

\* The value of HolidayDate._country_codes[country]: Literal[True] or a set
NationWide == [nation_wide |-> TRUE, subs |-> {}]
Explicit(S) == [nation_wide |-> FALSE, subs |-> S]

\* HolidayDate.__init__
HolidayDate(date) == [date |-> date, country_codes |-> EmptyDict, holiday_type |-> EmptyDict]

\* add_country_code without the check for an entry that is already nation wide:
\* an explicit contribution overwrites a Nationwide entry
add_country_code_Downgrading(hd, country_code, subdivs, nation_wide) ==
    IF ~((subdivs.kind # "None") # (nation_wide = {TRUE}))
    THEN [exc |-> {"ValueError"}, hd |-> hd]
    ELSE IF nation_wide = {TRUE}
    THEN [exc |-> {},
          hd |-> [hd EXCEPT !.country_codes = Put(@, country_code, NationWide)]]
    ELSE LET entry == Get(hd.country_codes, country_code, Explicit({}))
             effective_subdivisions == scn_to_set(subdivs)
         IN  [exc |-> {},
              hd |-> [hd EXCEPT !.country_codes =
                        Put(@, country_code,
                            Explicit(entry.subs \cup effective_subdivisions))]]

\* add_country_code that stores the contributed set instead of the union
add_country_code_Replacing(hd, country_code, subdivs, nation_wide) ==
    IF ~((subdivs.kind # "None") # (nation_wide = {TRUE}))
    THEN [exc |-> {"ValueError"}, hd |-> hd]
    ELSE IF nation_wide = {TRUE}
    THEN [exc |-> {},
          hd |-> [hd EXCEPT !.country_codes = Put(@, country_code, NationWide)]]
    ELSE LET entry == Get(hd.country_codes, country_code, Explicit({}))
         IN  IF entry.nation_wide
             THEN [exc |-> {}, hd |-> hd]
             ELSE [exc |-> {},
                   hd |-> [hd EXCEPT !.country_codes =
                             Put(@, country_code, Explicit(scn_to_set(subdivs)))]]

\* HolidayDate.add_country_code; nation_wide is {TRUE} or {} (None).
\* The result is the exception raised ({} when none) and the HolidayDate afterwards.
add_country_code(hd, country_code, subdivs, nation_wide) ==
    IF ~((subdivs.kind # "None") # (nation_wide = {TRUE}))
    THEN [exc |-> {"ValueError"}, hd |-> hd]
    ELSE IF nation_wide = {TRUE}
    THEN [exc |-> {},
          hd |-> [hd EXCEPT !.country_codes = Put(@, country_code, NationWide)]]
    ELSE LET entry == Get(hd.country_codes, country_code, Explicit({}))
         IN  IF entry.nation_wide
             THEN [exc |-> {}, hd |-> hd]
             ELSE LET effective_subdivisions == scn_to_set(subdivs)
                  IN  [exc |-> {},
                       hd |-> [hd EXCEPT !.country_codes =
                                 Put(@, country_code,
                                     Explicit(entry.subs \cup effective_subdivisions))]]

\* add_holiday_type that replaces the kinds of the region by the new kind
add_holiday_type_Replacing(hd, subdivision_code, holiday_type) ==
    [hd EXCEPT !.holiday_type = Put(@, subdivision_code, {holiday_type})]

\* HolidayDate.add_holiday_type (holiday_type is a defaultdict(set))
add_holiday_type(hd, subdivision_code, holiday_type) ==
    [hd EXCEPT !.holiday_type =
        Put(@, subdivision_code, Get(@, subdivision_code, {}) \cup {holiday_type})]

\* get_count_for_country without the "or 1" of a country that has no subdivision
get_count_for_country_NoFallback(hd, country_code, number_of_subdivisions) ==
    LET entry == Get(hd.country_codes, country_code, Explicit({}))
    IN  IF entry.nation_wide
        THEN number_of_subdivisions
        ELSE Cardinality(entry.subs)

\* HolidayDate.get_count_for_country
get_count_for_country(hd, country_code, number_of_subdivisions) ==
    LET entry == Get(hd.country_codes, country_code, Explicit({}))
    IN  IF entry.nation_wide
        THEN (IF number_of_subdivisions # 0 THEN number_of_subdivisions ELSE 1)
        ELSE Cardinality(entry.subs)

\* HolidayDate.get_percentage_for_country: the float num / den, kept as the pair
get_percentage_for_country(hd, country_code, number_of_subdivisions) ==
    [num |-> get_count_for_country(hd, country_code, number_of_subdivisions),
     den |-> IF number_of_subdivisions # 0 THEN number_of_subdivisions ELSE 1]

----------------------------------------------------------------------------
(* holidays.py: HolidayYear, synchronous parts *)

\* HolidayYear.__init__: one HolidayDate per date of the year
InitDates(year) ==
    LET seq == date_range(Date(year, 1, 1), Date(year, 12, 31), {})
    IN  [date \in {seq[i] : i \in DOMAIN seq} |-> HolidayDate(date)]

\* the comprehension leaving out the codes the registry does not hold
ResolveSubdivisions_SkippingUnknown(reg, country_code, refs) ==
    IF refs = {}
    THEN [exc |-> {}, value |-> ArgNone, reg |-> reg]
    ELSE LET reg1 == Touch(reg, country_code, EmptyDict)
         IN  [exc |-> {},
              value |-> ArgCollection({reg1[country_code][ref] :
                                          ref \in refs \cap DOMAIN reg1[country_code]}),
              reg |-> reg1]

\* The set comprehension of _parse_holiday_response, lines 113-120: the
\* subdivisions argument, the registry afterwards (the defaultdict inserts the
\* country on access) and the KeyError of a code that is not registered.
ResolveSubdivisions(reg, country_code, refs) ==
    IF refs = {}
    THEN [exc |-> {}, value |-> ArgNone, reg |-> reg]
    ELSE LET reg1 == Touch(reg, country_code, EmptyDict)
         IN  IF \E ref \in refs : ref \notin DOMAIN reg1[country_code]
             THEN [exc |-> {"KeyError"}, value |-> ArgNone, reg |-> reg1]
             ELSE [exc |-> {},
                   value |-> ArgCollection({reg1[country_code][ref] : ref \in refs}),
                   reg |-> reg1]

\* for subdivision_ref in holiday_response.subdivisions: add_holiday_type(...)
RECURSIVE AddHolidayTypes(_, _, _)
AddHolidayTypes(hd, refs, holiday_type) ==
    IF refs = {} THEN hd
    ELSE LET ref == CHOOSE r \in refs : TRUE
         IN  AddHolidayTypes(add_holiday_type(hd, ref, holiday_type),
                             refs \ {ref}, holiday_type)

\* The body of the date loop of _parse_holiday_response after add_country_code
TagHolidayTypes(hd, h) ==
    LET hd1 == IF h.type \in {SCHOOL, BACK_TO_SCHOOL, END_OF_LESSONS}
               THEN AddHolidayTypes(hd, h.subdivisions, EnumSCHOOL)
               ELSE hd
    IN  IF h.type \in {BANK, PUBLIC}
        THEN AddHolidayTypes(hd1, h.subdivisions, EnumPUBLIC)
        ELSE hd1

\* The date loop of _parse_holiday_response, from the i-th date of seq on;
\* an exception leaves the dates as modified so far.
RECURSIVE ParseDates(_, _, _, _, _, _)
ParseDates(ds, seq, i, country_code, subs, h) ==
    IF i > Len(seq)
    THEN [exc |-> {}, dates |-> ds]
    ELSE LET date == seq[i]
         IN  IF date \notin DOMAIN ds
             THEN [exc |-> {"KeyError"}, dates |-> ds]
             ELSE LET r == add_country_code(ds[date], country_code, subs,
                                            IF h.nationwide THEN {TRUE} ELSE {})
                  IN  IF r.exc # {}
                      THEN [exc |-> r.exc, dates |-> ds]
                      ELSE ParseDates([ds EXCEPT ![date] = TagHolidayTypes(r.hd, h)],
                                      seq, i + 1, country_code, subs, h)

\* HolidayYear._parse_holiday_response: the exception raised ({} when none),
\* _dates and _subdivisions afterwards
parse_holiday_response(ds, reg, year, country_code, h) ==
    LET res == ResolveSubdivisions(reg, country_code, h.subdivisions)
    IN  IF res.exc # {}
        THEN [exc |-> res.exc, dates |-> ds, reg |-> res.reg]
        ELSE LET seq == date_range(h.start_date, h.end_date, {year})
                 r == ParseDates(ds, seq, 1, country_code, res.value, h)
             IN  [exc |-> r.exc, dates |-> r.dates, reg |-> res.reg]

\* get_count_for_country_and_date passing len(self._subdivisions), the number of
\* countries of the registry, for the number of subdivisions of the country
get_count_for_country_and_date_CountingCountries(ds, reg, country_code, date) ==
    get_count_for_country(ds[date], country_code, Cardinality(DOMAIN reg))

\* HolidayYear.get_count_for_country_and_date (the value returned)
get_count_for_country_and_date(ds, reg, country_code, date) ==
    get_count_for_country(ds[date], country_code,
                          Cardinality(DOMAIN Get(reg, country_code, EmptyDict)))

\* HolidayYear.get_percentage_for_country_and_date (the value returned)
get_percentage_for_country_and_date(ds, reg, country_code, date) ==
    get_percentage_for_country(ds[date], country_code,
                               Cardinality(DOMAIN Get(reg, country_code, EmptyDict)))

\* self._subdivisions[country_code] in the two queries: _subdivisions is a
\* defaultdict(dict), and reading a key it does not hold stores an empty dict
\* under the key (the registry after the read)
read_subdivisions(reg, country_code) == Touch(reg, country_code, EmptyDict)

\* _parse_subdivisions of _get_subdivisions: flattens the tree into the registry
RECURSIVE ParseSubdivisions(_, _)
ParseSubdivisions(d, nodes) ==
    IF nodes = {} THEN d
    ELSE LET node == CHOOSE n \in nodes : TRUE
             d1 == Put(d, node.code, SubdivisionResponse(node))
             d2 == IF node.children # {} THEN ParseSubdivisions(d1, node.children) ELSE d1
         IN  ParseSubdivisions(d2, nodes \ {node})

----------------------------------------------------------------------------
(* The data the fetches may return *)

\* HolidayYear(year=2024, country_code=...): the configured countries
ConfiguredCountries == scn_to_set(ArgCollection({GERMANY, FRANCE}))

Node(code, name, children) == [code |-> code, name |-> name, children |-> children]

\* get_subdivisions(country_code): the trees the Subdivisions endpoint may return
SubdivisionResults(country_code) ==
    IF country_code = GERMANY
    THEN {{Node("DE-BW", "Baden-Wuerttemberg", {}),
           Node("DE-BY", "Bayern", {Node("DE-BY-AU", "Augsburg", {})})}}
    ELSE {{}, {Node("FR-COR", "Corse", {})}}

\* get_countries(): the iso codes of the countries the Countries endpoint may return
CountryResults == {{GERMANY, FRANCE, "PL"}}

\* CountryResponse.get_name(GERMANY) of the countries get_countries may return
CountryNames == [DE |-> "Deutschland", FR |-> "Frankreich", PL |-> "Polen"]

\* A CountryResponse as stored in HolidayYear._country_code_mapping
CountryResponse(iso_code) == [code |-> iso_code, name |-> CountryNames[iso_code]]

\* the (nationwide, subdivisions, type) triples a HolidayResponse may carry
Payloads(country_code) ==
    IF country_code = GERMANY
    THEN {<<TRUE, {}, PUBLIC>>,
          <<FALSE, {"DE-BW", "DE-BY"}, SCHOOL>>,
          <<FALSE, {"DE-BY", "DE-BY-AU"}, PUBLIC>>,
          <<FALSE, {}, BACK_TO_SCHOOL>>,
          <<TRUE, {"DE-BW", "DE-BY"}, PUBLIC>>,
          <<FALSE, {"DE-XX"}, SCHOOL>>}
    ELSE {<<TRUE, {}, BANK>>,
          <<FALSE, {"FR-COR"}, END_OF_LESSONS>>}

\* the (start_date, end_date) pairs a HolidayResponse may carry
Intervals ==
    LET jan1 == Date(Year, 1, 1)
        dec31 == Date(Year, 12, 31)
    IN  {<<jan1 - Margin, jan1 - Margin>>,     \* entirely before the year
         <<jan1 - Margin, jan1 + 1>>,          \* begins before the year
         <<jan1 + 1, jan1 + 1>>,               \* one day of the year
         <<jan1 + 1, jan1>>,                   \* start after end
         <<dec31, dec31 + Margin>>,            \* ends after the year
         <<dec31 + Margin, dec31 + Margin>>}   \* entirely after the year

\* get_all_holidays(country_code, year): the HolidayResponse objects it may yield
HolidayResponses(country_code) ==
    {[start_date |-> i[1], end_date |-> i[2], nationwide |-> p[1], subdivisions |-> p[2],
      type |-> p[3]] :
        i \in Intervals, p \in Payloads(country_code)}

----------------------------------------------------------------------------
(* Python loops and ordered dicts *)

\* for index in range(lo, hi + 1): acc = Body(acc, index).  The range is split
\* in halves and the left half is evaluated before the right one is entered.
RECURSIVE ForLoop(_, _, _, _)
ForLoop(Body(_, _), acc, lo, hi) ==
    IF lo > hi THEN acc
    ELSE IF lo = hi THEN Body(acc, lo)
    ELSE LET mid == (lo + hi) \div 2
             left == ForLoop(Body, acc, lo, mid)
         IN  IF DOMAIN left = {}
             THEN ForLoop(Body, left, mid + 1, hi)
             ELSE ForLoop(Body, left, mid + 1, hi)

\* A dict whose order of insertion matters: the sequence of its (key, value) items
Keys(od) == {od[i][1] : i \in DOMAIN od}

\* od[key]
Lookup(od, key) == od[CHOOSE i \in DOMAIN od : od[i][1] = key][2]

\* od[key] = value: a key the dict holds keeps its position
Store(od, key, value) ==
    IF key \in Keys(od)
    THEN [i \in DOMAIN od |-> IF od[i][1] = key THEN <<key, value>> ELSE od[i]]
    ELSE Append(od, <<key, value>>)

\* od.update(other)
RECURSIVE update(_, _)
update(od, other) ==
    IF other = <<>> THEN od
    ELSE update(Store(od, Head(other)[1], Head(other)[2]), Tail(other))

\* the mapping of an ordered dict, without the order
Mapping(od) == [key \in Keys(od) |-> Lookup(od, key)]

\* str.__lt__ on the display names the fetched data holds (code point order)
NamesAscending ==
    <<"Augsburg", "Baden-Wuerttemberg", "Bayern", "Corse", "Deutschland", "Frankreich", "Polen">>

NameRank(name) == CHOOSE i \in DOMAIN NamesAscending : NamesAscending[i] = name

\* sorted(S, key=Rank) for keys that are pairwise different
sorted(S, Rank(_)) ==
    [i \in 1..Cardinality(S) |->
        CHOOSE x \in S : Cardinality({y \in S : Rank(y) < Rank(x)}) = i - 1]

----------------------------------------------------------------------------
(* xlsxwriter: the worksheet a sheet object writes to *)

\* A worksheet: per coordinate the write calls received, in order; the
\* merge_range calls; the column and pane directives
EmptyWorksheet == [cells |-> <<>>, merges |-> <<>>, directives |-> <<>>]

\* no cell_format argument
NoFormat == EmptyDict

\* utility.xl_col_to_name for the 1-based column number, as the sequence of its
\* letters (A is 1)
RECURSIVE ColName(_)
ColName(col_num) ==
    IF col_num = 0 THEN <<>>
    ELSE LET remainder == IF col_num % 26 = 0 THEN 26 ELSE col_num % 26
         IN  Append(ColName((col_num - 1) \div 26), remainder)

\* utility.xl_rowcol_to_cell: the A1 notation, as its column letters and row number
xl_rowcol_to_cell(row, col) == [col_str |-> ColName(col + 1), row_str |-> row + 1]

RECURSIVE ColNumber(_)
ColNumber(col_str) ==
    IF col_str = <<>> THEN 0
    ELSE ColNumber(SubSeq(col_str, 1, Len(col_str) - 1)) * 26 + col_str[Len(col_str)]

\* utility.xl_cell_to_rowcol, applied by worksheet.write to a cell in A1 notation
xl_cell_to_rowcol(cell) == <<cell.row_str - 1, ColNumber(cell.col_str) - 1>>

\* worksheet.write(row, col, data, cell_format)
write(ws, row, col, data, cell_format) ==
    LET call == [data |-> data, cell_format |-> cell_format]
    IN  IF <<row, col>> \in DOMAIN ws.cells
        THEN [ws EXCEPT !.cells[<<row, col>>] = Append(@, call)]
        ELSE [ws EXCEPT !.cells = @ @@ (<<row, col>> :> <<call>>)]

\* worksheet.write(cell, data, cell_format) with the cell in A1 notation
write_cell(ws, cell, data, cell_format) ==
    LET rowcol == xl_cell_to_rowcol(cell)
    IN  write(ws, rowcol[1], rowcol[2], data, cell_format)

\* worksheet.merge_range(...)
merge_range(ws, first_row, last_row, first_col, last_col, data, cell_format) ==
    [ws EXCEPT !.merges =
        Append(@, [first_row |-> first_row, last_row |-> last_row,
                   first_col |-> first_col, last_col |-> last_col,
                   data |-> data, cell_format |-> cell_format])]

\* worksheet.set_column(first_col, last_col, width)
set_column(ws, first_col, last_col, width) ==
    [ws EXCEPT !.directives =
        Append(@, [call |-> "set_column", first |-> first_col, last |-> last_col,
                   width |-> width])]

\* worksheet.freeze_panes(row, col)
freeze_panes(ws, row, col) ==
    [ws EXCEPT !.directives =
        Append(@, [call |-> "freeze_panes", first |-> row, last |-> col, width |-> 0])]

----------------------------------------------------------------------------
(* excel/excelbase.py *)

\* colors.BATLOW_S_HEX: three colours of the palette
BATLOW_S_HEX == <<"BATLOW_S_HEX[0]", "BATLOW_S_HEX[1]", "BATLOW_S_HEX[2]">>

SCHOOL_HOLIDAY_COLOR == BATLOW_S_HEX[1]
PUBLIC_HOLIDAY_COLOR == BATLOW_S_HEX[2]
WEEKEND_COLOR == BATLOW_S_HEX[3]

MONTH_FORMAT ==
    [bold |-> 1, border |-> 1, align |-> "center", valign |-> "vcenter", fg_color |-> "white"]

\* the shades of gray, from the lightest to the darkest
GRAY_SCALE == <<"gray 0", "gray 1", "gray 2", "gray 3">>

\* colors.get_gray_scale_color: monotonic, 0 is the lightest shade, 1 the darkest
get_gray_scale_color(percentage) ==
    GRAY_SCALE[1 + ((percentage.num * (Len(GRAY_SCALE) - 1)) \div percentage.den)]

\* ExcelBase._get_gray_scale_format: the Format of the colour of the percentage
get_gray_scale_format(percentage) ==
    [fg_color |-> get_gray_scale_color(percentage), font_color |-> "white"]

\* the formats of a sheet object before ExcelBase.__init__ has added any: the
\* add_format calls made (a Format object is its position among them), the
\* lru_cache of _get_format (least recently used first), _gray_scale_format,
\* and the Format each request has returned for the style asked for
NoFormats == [added |-> <<>>, cached |-> <<>>, gray_scale_format |-> <<>>, returned |-> {}]

\* self.workbook.add_format(properties), called by the function named
add_format(fm, symbol, properties) ==
    [fm EXCEPT !.added = Append(@, [by |-> symbol, properties |-> properties])]

\* ExcelBase.__init__: self._month_format = self.workbook.add_format(_MONTH_FORMAT)
ExcelBase_init(fm) == add_format(fm, "__init__", MONTH_FORMAT)

lru_cache_maxsize == 256

\* ExcelBase.get_format: _get_format under lru_cache, keyed by
\* tuple(parameters.items()), the items in the order of the dict
cached_get_format(fm, parameters) ==
    LET key == parameters
        hit == key \in Keys(fm.cached)
        format == IF hit THEN Lookup(fm.cached, key) ELSE Len(fm.added) + 1
        others == SelectSeq(fm.cached, LAMBDA entry : entry[1] # key)
        kept == IF ~hit /\ Len(others) >= lru_cache_maxsize THEN Tail(others) ELSE others
        fm1 == IF hit THEN fm ELSE add_format(fm, "_get_format", Mapping(parameters))
    IN  [fm1 EXCEPT !.cached = Append(kept, <<key, format>>),
                    !.returned = @ \cup {[style |-> Mapping(parameters), format |-> format]}]

\* ExcelBase._get_gray_scale_format: the formats after the request
cached_gray_scale_format(fm, percentage) ==
    LET colour == get_gray_scale_color(percentage)
        fm1 == IF colour \notin Keys(fm.gray_scale_format)
               THEN [add_format(fm, "_get_gray_scale_format", get_gray_scale_format(percentage))
                        EXCEPT !.gray_scale_format = Store(@, colour, Len(fm.added) + 1)]
               ELSE fm
    IN  [fm1 EXCEPT !.returned = @ \cup {[style |-> get_gray_scale_format(percentage),
                                           format |-> Lookup(fm1.gray_scale_format, colour)]}]

\* calendar.month_name[month] under the locale de_DE.UTF-8 set by initialize
month_name(month) ==
    <<"Januar", "Februar", "Maerz", "April", "Mai", "Juni", "Juli", "August",
      "September", "Oktober", "November", "Dezember">>[month]

----------------------------------------------------------------------------
(* excel/yearoverview.py *)

\* _RowNumbers of yearoverview.py
Overview_MONTH_NAMES == 0
Overview_WEEK_NUMBERS == 1
Overview_DAY_NUMBERS == 2
Overview_HOLIDAY_COUNT == 3

DAY_FORMAT == [bottom |-> 1]
SCHOOL_HOLIDAY_FORMAT == [fg_color |-> SCHOOL_HOLIDAY_COLOR]
PUBLIC_HOLIDAY_FORMAT == [fg_color |-> PUBLIC_HOLIDAY_COLOR]
WEEKEND_FORMAT == [fg_color |-> WEEKEND_COLOR]

\* _weekend_day_format: add_format(_DAY_FORMAT) and set_fg_color(_weekend_format.fg_color)
WEEKEND_DAY_FORMAT == [bottom |-> 1, fg_color |-> WEEKEND_FORMAT.fg_color]

\* YearOverview.__init__ giving every registered region of every country a row
\* (the regions of Germany first, then those of the other countries, by country)
YearOverview_init_RowPerRegion(reg, mapping) ==
    LET de == IF GERMANY \in DOMAIN reg THEN reg[GERMANY] ELSE EmptyDict
        first_row == Overview_HOLIDAY_COUNT + 1
        sorted_subdivisions == sorted(DOMAIN de, LAMBDA code : NameRank(de[code].name))
        german == [i \in DOMAIN sorted_subdivisions |->
                     <<sorted_subdivisions[i],
                       [row |-> first_row + (i - 1), entity |-> de[sorted_subdivisions[i]]]>>]
        foreign == UNION {DOMAIN reg[c] : c \in (DOMAIN reg) \ {GERMANY}}
        entity(code) == LET c == CHOOSE c \in (DOMAIN reg) \ {GERMANY} : code \in DOMAIN reg[c]
                        IN  reg[c][code]
        sorted_foreign == sorted(foreign, LAMBDA code : NameRank(entity(code).name))
        others == [i \in DOMAIN sorted_foreign |->
                     <<sorted_foreign[i],
                       [row |-> first_row + Len(german) + 1 + (i - 1),
                        entity |-> entity(sorted_foreign[i])]>>]
    IN  [exc |-> {}, rows |-> german \o others]

\* YearOverview.__init__: _state_row_numbers, as the ordered dict code -> (row, entity);
\* a KeyError when the registry lacks Germany or holds a country that
\* HolidayYear.country_codes lacks
YearOverview_init(reg, mapping) ==
    IF GERMANY \notin DOMAIN reg \/ \E code \in DOMAIN reg : code \notin mapping
    THEN [exc |-> {"KeyError"}, rows |-> <<>>]
    ELSE LET de == reg[GERMANY]
             first_row == Overview_HOLIDAY_COUNT + 1
             sorted_subdivisions == sorted(DOMAIN de, LAMBDA code : NameRank(de[code].name))
             german == [i \in DOMAIN sorted_subdivisions |->
                          <<sorted_subdivisions[i],
                            [row |-> first_row + (i - 1),
                             entity |-> de[sorted_subdivisions[i]]]>>]
             sorted_countries ==
                 sorted(DOMAIN reg, LAMBDA code : NameRank(CountryResponse(code).name))
             foreign == SelectSeq(sorted_countries, LAMBDA code : code # GERMANY)
             others == [i \in DOMAIN foreign |->
                          <<foreign[i],
                            [row |-> first_row + Len(german) + 1 + (i - 1),
                             entity |-> CountryResponse(foreign[i])]>>]
         IN  [exc |-> {}, rows |-> german \o others]

\* YearOverview.write_division_names
YearOverview_write_division_names(ws, rows) ==
    LET Body(acc, i) ==
            LET entity == rows[i][2].entity
                cell == xl_rowcol_to_cell(rows[i][2].row, 0)
                max_length == Max(acc.max_length, Len(entity.name))
            IN  [ws |-> set_column(write_cell(acc.ws, cell, entity.name, NoFormat),
                                   0, 0, max_length),
                 max_length |-> max_length]
    IN  ForLoop(Body, [ws |-> ws, max_length |-> 0], 1, Len(rows)).ws

\* YearOverview.write_month_names
YearOverview_write_month_names(ws, year) ==
    LET Body(acc, month) ==
            LET number_days == DaysInMonth(year, month)
                offset == 1 + DaysBeforeMonth(year, month)
            IN  merge_range(acc, Overview_MONTH_NAMES, Overview_MONTH_NAMES,
                            offset, offset + number_days - 1, month_name(month), MONTH_FORMAT)
    IN  ForLoop(Body, ws, 1, 12)

\* YearOverview._write_weekend_day
write_weekend_day(ws, rows, column) ==
    LET Body(acc, i) ==
            write_cell(acc, xl_rowcol_to_cell(rows[i][2].row, column), "", WEEKEND_FORMAT)
    IN  ForLoop(Body, ws, 1, Len(rows))

\* YearOverview.write_day_numbers
YearOverview_write_day_numbers(ws, year, rows) ==
    LET days == year_range(year)
        Body(acc, i) ==
            LET date == days[i]
                int_column == day_of_year(date)
                cell == xl_rowcol_to_cell(Overview_DAY_NUMBERS, int_column)
                weekend == weekday(Date(year, MonthOf(date), DayOf(date))) \in {SATURDAY, SUNDAY}
                cell_format == IF weekend THEN WEEKEND_DAY_FORMAT ELSE DAY_FORMAT
                ws1 == write_cell(acc, cell, ToString(DayOf(date)), cell_format)
            IN  IF weekend THEN write_weekend_day(ws1, rows, int_column) ELSE ws1
    IN  ForLoop(Body, ws, 1, Len(days))

\* write_week_numbers scanning the weeks of the year itself only
WeeksScanned_OneYear(year) == weeks_of_year(year)

\* the weeks write_week_numbers scans: those of the previous, the current and
\* the next ISO year
WeeksScanned(year) == weeks_of_year(year - 1) \o weeks_of_year(year) \o weeks_of_year(year + 1)

\* YearOverview.write_week_numbers
YearOverview_write_week_numbers(ws, year) ==
    LET first_date_of_year == Date(year, 1, 1)
        last_date_of_year == Date(year, 12, 31)
        weeks == WeeksScanned(year)
        Body(acc, i) ==
            LET monday == WeekMonday(weeks[i].year, weeks[i].week)
                sunday == WeekSunday(weeks[i].year, weeks[i].week)
                first_col == day_of_year(truncate_to_year(monday, year))
                last_col == day_of_year(truncate_to_year(sunday, year))
            IN  IF monday > last_date_of_year \/ sunday < first_date_of_year
                THEN acc
                ELSE IF first_col = last_col
                THEN write_cell(acc, xl_rowcol_to_cell(Overview_WEEK_NUMBERS, first_col),
                                ToString(weeks[i].week), MONTH_FORMAT)
                ELSE merge_range(acc, Overview_WEEK_NUMBERS, Overview_WEEK_NUMBERS,
                                 first_col, last_col, ToString(weeks[i].week), MONTH_FORMAT)
    IN  ForLoop(Body, ws, 1, Len(weeks))

\* YearOverview._write_holiday_date_germany painting school over public
write_holiday_date_germany_SchoolFirst(ws, rows, reg, holiday_date, column, value) ==
    IF value.nation_wide
    THEN LET codes == sorted(DOMAIN reg[GERMANY], LAMBDA code : Lookup(rows, code).row)
             Body(acc, i) ==
                 write_cell(acc, xl_rowcol_to_cell(Lookup(rows, codes[i]).row, column), "",
                            PUBLIC_HOLIDAY_FORMAT)
         IN  ForLoop(Body, ws, 1, Len(codes))
    ELSE LET codes == sorted({subdivision.code : subdivision \in value.subs},
                             LAMBDA code : Lookup(rows, code).row)
             Body(acc, i) ==
                 LET holiday_types == Get(holiday_date.holiday_type, codes[i], {})
                     cell_format == IF EnumSCHOOL \in holiday_types
                                    THEN SCHOOL_HOLIDAY_FORMAT
                                    ELSE PUBLIC_HOLIDAY_FORMAT
                 IN  write_cell(acc, xl_rowcol_to_cell(Lookup(rows, codes[i]).row, column), "",
                                cell_format)
         IN  ForLoop(Body, ws, 1, Len(codes))

\* YearOverview._write_holiday_date_germany: value is the entry of Germany.  The
\* cells of one call lie in different rows; they are written in the order of the rows.
write_holiday_date_germany(ws, rows, reg, holiday_date, column, value) ==
    IF value.nation_wide
    THEN LET codes == sorted(DOMAIN reg[GERMANY], LAMBDA code : Lookup(rows, code).row)
             Body(acc, i) ==
                 write_cell(acc, xl_rowcol_to_cell(Lookup(rows, codes[i]).row, column), "",
                            PUBLIC_HOLIDAY_FORMAT)
         IN  ForLoop(Body, ws, 1, Len(codes))
    ELSE LET codes == sorted({subdivision.code : subdivision \in value.subs},
                             LAMBDA code : Lookup(rows, code).row)
             Body(acc, i) ==
                 LET holiday_types == Get(holiday_date.holiday_type, codes[i], {})
                     cell_format == IF EnumPUBLIC \in holiday_types
                                    THEN PUBLIC_HOLIDAY_FORMAT
                                    ELSE SCHOOL_HOLIDAY_FORMAT
                 IN  write_cell(acc, xl_rowcol_to_cell(Lookup(rows, codes[i]).row, column), "",
                                cell_format)
         IN  ForLoop(Body, ws, 1, Len(codes))

\* YearOverview._write_holiday_date_foreign
write_holiday_date_foreign(ws, rows, ds, reg, column, country_code, holiday_date) ==
    LET cell == xl_rowcol_to_cell(Lookup(rows, country_code).row, column)
        percentage == get_percentage_for_country_and_date(ds, reg, country_code,
                                                          holiday_date.date)
    IN  write_cell(ws, cell, "", get_gray_scale_format(percentage))

\* write_holiday_date that paints the regions of Germany only
YearOverview_write_holiday_date_GermanyOnly(ws, rows, ds, reg, holiday_date) ==
    IF GERMANY \in DOMAIN holiday_date.country_codes
    THEN write_holiday_date_germany(ws, rows, reg, holiday_date, day_of_year(holiday_date.date),
                                    holiday_date.country_codes[GERMANY])
    ELSE ws

\* YearOverview.write_holiday_date; the countries of the date write different
\* rows and are taken with Germany first
YearOverview_write_holiday_date(ws, rows, ds, reg, holiday_date) ==
    LET column == day_of_year(holiday_date.date)
        countries == sorted(DOMAIN holiday_date.country_codes,
                            LAMBDA c : IF c = GERMANY THEN 0 ELSE NameRank(CountryNames[c]))
        Body(acc, i) ==
            IF countries[i] = GERMANY
            THEN write_holiday_date_germany(acc, rows, reg, holiday_date, column,
                                            holiday_date.country_codes[countries[i]])
            ELSE write_holiday_date_foreign(acc, rows, ds, reg, column, countries[i],
                                            holiday_date)
    IN  ForLoop(Body, ws, 1, Len(countries))

\* ExcelBase.write_holiday_dates of a YearOverview
YearOverview_write_holiday_dates(ws, rows, ds, reg, year) ==
    LET days == year_range(year)
        Body(acc, i) == YearOverview_write_holiday_date(acc, rows, ds, reg, ds[days[i]])
    IN  ForLoop(Body, ws, 1, Len(days))

\* the formats after ExcelBase.write_holiday_dates of a YearOverview: a request
\* to _get_gray_scale_format for every country of a date other than Germany
YearOverview_holiday_date_formats(fm, ds, reg, year) ==
    LET days == year_range(year)
        Body(acc, i) ==
            LET holiday_date == ds[days[i]]
                countries == sorted(DOMAIN holiday_date.country_codes \ {GERMANY},
                                    LAMBDA c : NameRank(CountryNames[c]))
                Request(acc1, j) ==
                    cached_gray_scale_format(
                        acc1, get_percentage_for_country_and_date(ds, reg, countries[j],
                                                                  holiday_date.date))
            IN  IF countries = <<>> THEN acc ELSE ForLoop(Request, acc, 1, Len(countries))
    IN  ForLoop(Body, fm, 1, Len(days))

\* the defaultdict holiday_type after _write_holiday_date_germany has read
\* holiday_date.holiday_type[code] for the regions of an explicit entry
TouchHolidayTypes(holiday_date) ==
    IF GERMANY \in DOMAIN holiday_date.country_codes
          /\ ~holiday_date.country_codes[GERMANY].nation_wide
    THEN LET codes == {subdivision.code : subdivision \in holiday_date.country_codes[GERMANY].subs}
         IN  [holiday_date EXCEPT !.holiday_type =
                [code \in (DOMAIN @) \cup codes |-> Get(@, code, {})]]
    ELSE holiday_date

\* YearOverview.write_holiday_count_germany
YearOverview_write_holiday_count_germany(ws, ds, reg, year) ==
    LET days == year_range(year)
        Body(acc, i) ==
            LET date == ds[days[i]].date
                cell == xl_rowcol_to_cell(Overview_HOLIDAY_COUNT, day_of_year(date))
                value == get_count_for_country_and_date(ds, reg, GERMANY, date)
                percentage == get_percentage_for_country_and_date(ds, reg, GERMANY, date)
            IN  write_cell(acc, cell, ToString(value), get_gray_scale_format(percentage))
    IN  ForLoop(Body, ws, 1, Len(days))

\* the formats after write_holiday_count_germany: a request per date
YearOverview_holiday_count_formats(fm, ds, reg, year) ==
    LET days == year_range(year)
        Body(acc, i) ==
            cached_gray_scale_format(
                acc, get_percentage_for_country_and_date(ds, reg, GERMANY, ds[days[i]].date))
    IN  ForLoop(Body, fm, 1, Len(days))

\* YearOverview.__init__: the cell formats, lines 77-82
YearOverview_init_formats(fm) ==
    LET fm1 == add_format(ExcelBase_init(fm), "__init__", DAY_FORMAT)
        fm2 == add_format(fm1, "__init__", SCHOOL_HOLIDAY_FORMAT)
        fm3 == add_format(fm2, "__init__", PUBLIC_HOLIDAY_FORMAT)
        fm4 == add_format(fm3, "__init__", WEEKEND_FORMAT)
    IN  add_format(fm4, "__init__", WEEKEND_DAY_FORMAT)

\* the end of YearOverview.write_year: the column widths and the frozen panes
YearOverview_finish(ws, year) ==
    freeze_panes(set_column(ws, 1, 1 + day_of_year(Date(year, 12, 31)), 2),
                 Overview_HOLIDAY_COUNT + 1, 1)

----------------------------------------------------------------------------
(* excel/yearcalendar.py *)

\* _RowNumbers of yearcalendar.py
Calendar_MONTH_NAMES == 0
Calendar_DESCRIPTION == 1

\* _CellContainer(): the format is a dict, kept with its order of insertion
CellContainer == [format |-> <<>>, content |-> ""]

\* _DayContainer()
DayContainer ==
    [day_number |-> CellContainer, week_number |-> CellContainer, field |-> CellContainer]

\* YearCalendar(..., foreign_country_code=CountryCode.FRANCE) in main()
foreign_country_code == {FRANCE}

get_month_column_offset_TwoWide(month) == 2 * (month - 1)

get_month_column_offset(month) == 3 * (month - 1)

get_month_row_offset(year, month) ==
    Calendar_DESCRIPTION + 1 + (weekday(Date(year, month, 1)) - 1)

\* ExcelBase.get_format: the Format whose attributes are the items of the dict
get_format(parameters) == Mapping(parameters)

\* cell_container.format.update(parameters) that replaces the dict
format_update_Replacing(cell_container, parameters) ==
    [cell_container EXCEPT !.format = parameters]

\* cell_container.format.update(parameters)
format_update(cell_container, parameters) ==
    [cell_container EXCEPT !.format = update(@, parameters)]

\* YearCalendar.write_division_names (a cell without data and format is not written)
YearCalendar_write_division_names(ws, foreign) ==
    LET Body(acc, month) ==
            LET month_column_offset == get_month_column_offset(month)
                ws1 == IF foreign = {} THEN acc
                       ELSE write(acc, Calendar_DESCRIPTION, month_column_offset,
                                  CHOOSE c \in foreign : TRUE, NoFormat)
            IN  write(ws1, Calendar_DESCRIPTION, month_column_offset + 1, GERMANY, NoFormat)
    IN  ForLoop(Body, ws, 1, 12)

\* YearCalendar.write_month_names
YearCalendar_write_month_names(ws) ==
    LET Body(acc, month) ==
            merge_range(acc, Calendar_MONTH_NAMES, Calendar_MONTH_NAMES,
                        get_month_column_offset(month), get_month_column_offset(month) + 2,
                        month_name(month), MONTH_FORMAT)
    IN  ForLoop(Body, ws, 1, 12)

\* The body of the date loop of YearCalendar.write_day_numbers: the defaultdict
\* yields the container of the date, a fresh one when the date is new
WriteDayNumber(dc, date, number_days) ==
    LET day_container == Get(dc, date, DayContainer)
        p0 == <<>>
        p1 == IF weekday(date) = SUNDAY \/ DayOf(date) = number_days
              THEN Store(p0, "bottom", 1) ELSE p0
        p2 == IF weekday(date) = SATURDAY \/ DayOf(date) = 1
              THEN Store(p1, "top", 1) ELSE p1
        p3 == IF weekday(date) \in {SATURDAY, SUNDAY}
              THEN Store(p2, "fg_color", WEEKEND_COLOR) ELSE p2
        for_day_number == Store(p3, "right", 1)
        for_week_number == Store(Store(for_day_number, "left", 1), "right", 0)
        for_field == Store(Store(for_week_number, "left", 1), "right", 1)
        day_number == [format_update(day_container.day_number, for_day_number)
                          EXCEPT !.content = ToString(DayOf(date))]
        week_number0 == format_update(day_container.week_number, for_week_number)
        week_number == IF weekday(date) = MONDAY \/ DayOf(date) = 1
                       THEN [week_number0 EXCEPT !.content = ToString(IsoWeekOf(date))]
                       ELSE week_number0
        field == [format_update(day_container.field, for_field) EXCEPT !.content = ""]
    IN  (date :> [day_number |-> day_number, week_number |-> week_number, field |-> field])
            @@ dc

\* YearCalendar.write_day_numbers: the containers and the worksheet afterwards
YearCalendar_write_day_numbers(dc, ws, year) ==
    LET Month(acc, month) ==
            LET number_days == DaysInMonth(year, month)
                month_column_offset == get_month_column_offset(month)
                days == date_range(Date(year, month, 1), Date(year, month, number_days), {})
                Day(containers, i) == WriteDayNumber(containers, days[i], number_days)
            IN  [dc |-> ForLoop(Day, acc.dc, 1, Len(days)),
                 ws |-> set_column(acc.ws, month_column_offset, month_column_offset + 1, 2)]
    IN  ForLoop(Month, [dc |-> dc, ws |-> ws], 1, 12)

\* YearCalendar.write_holiday_date; Germany and the foreign country change
\* different cell containers and are taken with Germany first
YearCalendar_write_holiday_date(dc, ds, reg, holiday_date, foreign) ==
    LET countries == sorted(DOMAIN holiday_date.country_codes,
                            LAMBDA c : IF c = GERMANY THEN 0 ELSE NameRank(CountryNames[c]))
        Body(acc, i) ==
            LET country_code == countries[i]
            IN  IF country_code \notin ({GERMANY} \cup foreign)
                THEN acc
                ELSE LET percentage == get_percentage_for_country_and_date(
                                           ds, reg, country_code, holiday_date.date)
                         gray_scale == get_gray_scale_color(percentage)
                         font_color == IF 2 * percentage.num < percentage.den
                                       THEN "#000000" ELSE "#FFFFFF"
                         dc0 == Touch(acc, holiday_date.date, DayContainer)
                         parameters == <<<<"fg_color", gray_scale>>, <<"font_color", font_color>>>>
                         dc1 == IF country_code = GERMANY
                                THEN [dc0 EXCEPT ![holiday_date.date].day_number =
                                         format_update(@, parameters)]
                                ELSE [dc0 EXCEPT ![holiday_date.date].week_number =
                                         format_update(@, parameters)]
                     IN  IF country_code = GERMANY
                            /\ holiday_date.country_codes[country_code].nation_wide
                         THEN [dc1 EXCEPT ![holiday_date.date].field =
                                  format_update(@, <<<<"fg_color", PUBLIC_HOLIDAY_COLOR>>>>)]
                         ELSE dc1
    IN  ForLoop(Body, dc, 1, Len(countries))

\* ExcelBase.write_holiday_dates of a YearCalendar
YearCalendar_write_holiday_dates(dc, ds, reg, year, foreign) ==
    LET days == year_range(year)
        Body(acc, i) == YearCalendar_write_holiday_date(acc, ds, reg, ds[days[i]], foreign)
    IN  ForLoop(Body, dc, 1, Len(days))

\* the three cells of a date as write_year writes them
CommitDate(ws, dc, year, date) ==
    LET month == MonthOf(date)
        month_row_offset == get_month_row_offset(year, month)
        month_column_offset == get_month_column_offset(month)
        day_container == dc[date]
        ws1 == write(ws, month_row_offset + DayOf(date), month_column_offset,
                     day_container.week_number.content,
                     get_format(day_container.week_number.format))
        ws2 == write(ws1, month_row_offset + DayOf(date), month_column_offset + 1,
                     day_container.day_number.content,
                     get_format(day_container.day_number.format))
    IN  write(ws2, month_row_offset + DayOf(date), month_column_offset + 2,
              day_container.field.content, get_format(day_container.field.format))

\* the formats after the loop of YearCalendar.write_year: three requests to
\* get_format per date, for the week-number, day-number and field cells
YearCalendar_commit_formats(fm, dc, days) ==
    LET Body(acc, i) ==
            LET day_container == Get(dc, days[i], DayContainer)
                fm1 == cached_get_format(acc, day_container.week_number.format)
                fm2 == cached_get_format(fm1, day_container.day_number.format)
            IN  cached_get_format(fm2, day_container.field.format)
    IN  ForLoop(Body, fm, 1, Len(days))

\* the loop of YearCalendar.write_year that leaves out the last date of the year
YearCalendar_commit_WithoutLastDate(dc, ws, year) ==
    LET days == year_range(year)
        Body(acc, i) ==
            LET dc0 == Touch(acc.dc, days[i], DayContainer)
            IN  [dc |-> dc0, ws |-> CommitDate(acc.ws, dc0, year, days[i])]
    IN  ForLoop(Body, [dc |-> dc, ws |-> ws], 1, Len(days) - 1)

\* the loop of YearCalendar.write_year after super().write_year(): the commit
YearCalendar_commit(dc, ws, year) ==
    LET days == year_range(year)
        Body(acc, i) ==
            LET dc0 == Touch(acc.dc, days[i], DayContainer)
            IN  [dc |-> dc0, ws |-> CommitDate(acc.ws, dc0, year, days[i])]
    IN  ForLoop(Body, [dc |-> dc, ws |-> ws], 1, Len(days))

----------------------------------------------------------------------------
(* holidays.py: HolidayYear.initialize and its tasks; main.py *)

\* __aenter__ that swallows the exception of initialize
AEnter_Swallowing(exc) == "overview"

\* HolidayYear.__aenter__: where main() continues once initialize has ended
AEnter(exc) == IF exc = {} THEN "overview" ELSE "raised"

\* no function of utils/datetime.py is called on its own
NoDatetimeCall == input = {} /\ output = {}

\* no sheet object is constructed
NoSheet ==
    /\ excel_pc = "none"
    /\ state_row_numbers = <<>>
    /\ worksheet = EmptyWorksheet
    /\ day_containers = EmptyDict
    /\ formats = NoFormats

\* the variables of HolidayYear, its tasks and main()
holiday_vars == <<dates, subdivisions, country_code_mapping, sub_task, countries_task,
                  hol_task, running, init_pc, main_pc, error, calls, last, sink>>

\* HolidayYear(Year) is constructed and entered, nothing is fetched yet
HolidayYearConstructed ==
    /\ dates = InitDates(Year)
    /\ subdivisions = EmptyDict
    /\ country_code_mapping = {}
    /\ sub_task = [c \in ConfiguredCountries |-> "pending"]
    /\ countries_task = "pending"
    /\ hol_task = [c \in ConfiguredCountries |-> "not started"]
    /\ running = {}
    /\ init_pc = "gather subdivisions"
    /\ main_pc = "aenter"
    /\ error = {}
    /\ calls = 0
    /\ last = {}
    /\ sink = {}

Init ==
    /\ HolidayYearConstructed
    /\ NoDatetimeCall
    /\ NoSheet

\* every task of the event loop is cancelled once main() has ended
Alive == main_pc = "aenter"

\* _get_subdivisions(country_code) resumes with the fetched tree
GetSubdivisions(c) ==
    /\ Alive /\ running = {}
    /\ sub_task[c] = "pending"
    /\ \E results \in SubdivisionResults(c) :
          subdivisions' = LET d == Put(subdivisions, c, Get(subdivisions, c, EmptyDict))
                          IN  [d EXCEPT ![c] = ParseSubdivisions(@, results)]
    /\ sub_task' = [sub_task EXCEPT ![c] = "done"]
    /\ UNCHANGED <<dates, country_code_mapping, countries_task, hol_task, running, init_pc,
                   main_pc, error, calls, last, sink>>
    /\ UNCHANGED <<datetime_vars, excel_vars>>

\* the request of get_subdivisions fails (raise_for_status)
GetSubdivisionsFails(c) ==
    /\ Alive /\ running = {}
    /\ sub_task[c] = "pending"
    /\ sub_task' = [sub_task EXCEPT ![c] = "failed"]
    /\ error' = IF error = {} THEN {"HTTPStatusError"} ELSE error
    /\ UNCHANGED <<dates, subdivisions, country_code_mapping, countries_task, hol_task,
                   running, init_pc, main_pc, calls, last, sink>>
    /\ UNCHANGED <<datetime_vars, excel_vars>>

\* _get_countries resumes with the fetched countries
GetCountries ==
    /\ Alive /\ running = {}
    /\ countries_task = "pending"
    /\ \E results \in CountryResults :
          country_code_mapping' =
             country_code_mapping \cup {c \in results : c \in ConfiguredCountries}
    /\ countries_task' = "done"
    /\ UNCHANGED <<dates, subdivisions, sub_task, hol_task, running, init_pc, main_pc,
                   error, calls, last, sink>>
    /\ UNCHANGED <<datetime_vars, excel_vars>>

\* the request of get_countries fails (raise_for_status)
GetCountriesFails ==
    /\ Alive /\ running = {}
    /\ countries_task = "pending"
    /\ countries_task' = "failed"
    /\ error' = IF error = {} THEN {"HTTPStatusError"} ELSE error
    /\ UNCHANGED <<dates, subdivisions, country_code_mapping, sub_task, hol_task,
                   running, init_pc, main_pc, calls, last, sink>>
    /\ UNCHANGED <<datetime_vars, excel_vars>>

\* initialize with a single gather: the holiday tasks start together with the others
StartHolidays_NotWaiting ==
    /\ Alive /\ running = {}
    /\ init_pc = "gather subdivisions"
    /\ error = {}
    /\ init_pc' = "gather holidays"
    /\ hol_task' = [c \in ConfiguredCountries |-> "pending"]
    /\ UNCHANGED <<dates, subdivisions, country_code_mapping, sub_task, countries_task,
                   running, main_pc, error, calls, last, sink>>
    /\ UNCHANGED <<datetime_vars, excel_vars>>

\* initialize: the first gather has ended, the second one starts the holiday tasks
StartHolidays ==
    /\ Alive /\ running = {}
    /\ init_pc = "gather subdivisions"
    /\ error = {}
    /\ countries_task = "done"
    /\ \A c \in ConfiguredCountries : sub_task[c] = "done"
    /\ init_pc' = "gather holidays"
    /\ hol_task' = [c \in ConfiguredCountries |-> "pending"]
    /\ UNCHANGED <<dates, subdivisions, country_code_mapping, sub_task, countries_task,
                   running, main_pc, error, calls, last, sink>>
    /\ UNCHANGED <<datetime_vars, excel_vars>>

\* _get_all_holidays(country_code) resumes with the fetched responses and enters its loop
GetAllHolidays(c) ==
    /\ Alive /\ running = {}
    /\ hol_task[c] = "pending"
    /\ hol_task' = [hol_task EXCEPT ![c] = "parsing"]
    /\ running' = {c}
    /\ UNCHANGED <<dates, subdivisions, country_code_mapping, sub_task, countries_task,
                   init_pc, main_pc, error, calls, last, sink>>
    /\ UNCHANGED <<datetime_vars, excel_vars>>

\* a request of get_all_holidays fails (raise_for_status)
GetAllHolidaysFails(c) ==
    /\ Alive /\ running = {}
    /\ hol_task[c] = "pending"
    /\ hol_task' = [hol_task EXCEPT ![c] = "failed"]
    /\ error' = IF error = {} THEN {"HTTPStatusError"} ELSE error
    /\ UNCHANGED <<dates, subdivisions, country_code_mapping, sub_task, countries_task,
                   running, init_pc, main_pc, calls, last, sink>>
    /\ UNCHANGED <<datetime_vars, excel_vars>>

\* one iteration of the loop of _get_all_holidays: _parse_holiday_response
ParseHolidayResponse(c) ==
    /\ Alive /\ running = {c}
    /\ hol_task[c] = "parsing"
    /\ calls < MaxCalls
    /\ \E h \in HolidayResponses(c) :
          LET r == parse_holiday_response(dates, subdivisions, Year, c, h)
          IN  /\ dates' = r.dates
              /\ subdivisions' = r.reg
              /\ last' = {[country_code |-> c, response |-> h, exc |-> r.exc]}
              /\ hol_task' = [hol_task EXCEPT ![c] = IF r.exc = {} THEN "parsing" ELSE "failed"]
              /\ running' = IF r.exc = {} THEN running ELSE {}
              /\ error' = IF error = {} THEN r.exc ELSE error
    /\ calls' = calls + 1
    /\ UNCHANGED <<country_code_mapping, sub_task, countries_task, init_pc, main_pc, sink>>
    /\ UNCHANGED <<datetime_vars, excel_vars>>

\* the loop of _get_all_holidays is exhausted
GetAllHolidaysDone(c) ==
    /\ Alive /\ running = {c}
    /\ hol_task[c] = "parsing"
    /\ hol_task' = [hol_task EXCEPT ![c] = "done"]
    /\ running' = {}
    /\ UNCHANGED <<dates, subdivisions, country_code_mapping, sub_task, countries_task,
                   init_pc, main_pc, error, calls, last, sink>>
    /\ UNCHANGED <<datetime_vars, excel_vars>>

\* initialize ends (returns, or raises the first exception of a gather) and
\* __aenter__ hands over to main()
InitializeEnds ==
    /\ Alive /\ running = {}
    /\ \/ error # {}
       \/ /\ init_pc = "gather holidays"
          /\ \A c \in ConfiguredCountries : hol_task[c] = "done"
    /\ init_pc' = IF error = {} THEN "returned" ELSE "raised"
    /\ main_pc' = AEnter(error)
    /\ UNCHANGED <<dates, subdivisions, country_code_mapping, sub_task, countries_task,
                   hol_task, running, error, calls, last, sink>>
    /\ UNCHANGED <<datetime_vars, excel_vars>>

\* main(): with YearOverview(...) as year_overview: year_overview.write_year()
WriteYearOverview ==
    /\ main_pc = "overview"
    /\ sink' = sink \cup {"Uebersicht"}
    /\ main_pc' = "calendar"
    /\ UNCHANGED <<dates, subdivisions, country_code_mapping, sub_task, countries_task,
                   hol_task, running, init_pc, error, calls, last>>
    /\ UNCHANGED <<datetime_vars, excel_vars>>

\* main(): with YearCalendar(...) as year_calendar: year_calendar.write_year()
WriteYearCalendar ==
    /\ main_pc = "calendar"
    /\ sink' = sink \cup {"Kalender"}
    /\ main_pc' = "done"
    /\ UNCHANGED <<dates, subdivisions, country_code_mapping, sub_task, countries_task,
                   hol_task, running, init_pc, error, calls, last>>
    /\ UNCHANGED <<datetime_vars, excel_vars>>

Next ==
    \/ \E c \in ConfiguredCountries : GetSubdivisions(c)
    \/ \E c \in ConfiguredCountries : GetSubdivisionsFails(c)
    \/ GetCountries
    \/ GetCountriesFails
    \/ StartHolidays
    \/ \E c \in ConfiguredCountries : GetAllHolidays(c)
    \/ \E c \in ConfiguredCountries : GetAllHolidaysFails(c)
    \/ \E c \in ConfiguredCountries : ParseHolidayResponse(c)
    \/ \E c \in ConfiguredCountries : GetAllHolidaysDone(c)
    \/ InitializeEnds
    \/ WriteYearOverview
    \/ WriteYearCalendar

Spec == Init /\ [][Next]_vars

----------------------------------------------------------------------------
(* utils/datetime.py and YearOverview.write_week_numbers, called on their own *)

\* the years the functions are called for
DatetimeYears == (Year - YearsBefore)..(Year + YearsAfter)

\* the dates around both ends of the year, and one inside it
DatetimeDates(year) ==
    ((Date(year, 1, 1) - Margin)..(Date(year, 1, 1) + Margin))
        \cup ((Date(year, 12, 31) - Margin)..(Date(year, 12, 31) + Margin))
        \cup {Date(year, 7, 1)}

InitDatetime ==
    /\ HolidayYearConstructed
    /\ NoSheet
    /\ \E year \in DatetimeYears : \E date \in DatetimeDates(year) :
          \E end_date \in (date - 1)..(date + Margin) :
             input = [date |-> date, end_date |-> end_date, year |-> year]
    /\ output = [function |-> "none"]

\* every behaviour holds one call and, at most, its repetition
NothingCalled == output.function = "none" /\ worksheet = EmptyWorksheet

\* truncate_to_year(date, year)
TruncateToYear ==
    /\ NothingCalled
    /\ output' = [function |-> "truncate_to_year",
                  result |-> truncate_to_year(input.date, input.year)]
    /\ UNCHANGED <<holiday_vars, input, excel_vars>>

\* truncate_to_year(truncate_to_year(date, year), year)
TruncateToYearAgain ==
    /\ output.function = "truncate_to_year"
    /\ output' = [function |-> "truncate_to_year of the result", first |-> output.result,
                  result |-> truncate_to_year(output.result, input.year)]
    /\ UNCHANGED <<holiday_vars, input, excel_vars>>

\* list(date_range(date, end_date))
DateRange ==
    /\ NothingCalled
    /\ output' = [function |-> "date_range",
                  result |-> date_range(input.date, input.end_date, {})]
    /\ UNCHANGED <<holiday_vars, input, excel_vars>>

\* list(date_range(date, end_date)) once more after a first call
DateRangeAgain ==
    /\ output.function = "date_range"
    /\ output' = [function |-> "date_range again", first |-> output.result,
                  result |-> date_range(input.date, input.end_date, {})]
    /\ UNCHANGED <<holiday_vars, input, excel_vars>>

\* write_week_numbers() of a YearOverview of the year on its fresh worksheet
WriteWeekNumbers ==
    /\ NothingCalled
    /\ worksheet' = YearOverview_write_week_numbers(worksheet, input.year)
    /\ UNCHANGED <<holiday_vars, datetime_vars, excel_pc, state_row_numbers, day_containers, formats>>

NextDatetime ==
    \/ TruncateToYear
    \/ TruncateToYearAgain
    \/ DateRange
    \/ DateRangeAgain
    \/ WriteWeekNumbers

SpecDatetime == InitDatetime /\ [][NextDatetime]_vars

----------------------------------------------------------------------------
(* The HolidayYear the sheets of main() are written from *)

\* the HolidayResponse objects parsed before the sheets are written, with the
\* country they are fetched for (2024-01-01 is a Monday)
ResponsePool ==
    LET jan1 == Date(Year, 1, 1)
        Response(start_date, end_date, nationwide, subs, type) ==
            [start_date |-> start_date, end_date |-> end_date, nationwide |-> nationwide,
             subdivisions |-> subs, type |-> type]
    IN  {[country_code |-> GERMANY,
          response |-> Response(jan1, jan1 + 5, FALSE, {"DE-BW", "DE-BY"}, SCHOOL)],
         [country_code |-> GERMANY,
          response |-> Response(jan1 + 1, jan1 + 1, FALSE, {"DE-BY", "DE-BY-AU"}, PUBLIC)],
         [country_code |-> GERMANY,
          response |-> Response(jan1, jan1 + 1, TRUE, {}, PUBLIC)],
         [country_code |-> GERMANY,
          response |-> Response(jan1 + 5, jan1 + 6, FALSE, {"DE-BW"}, SCHOOL)],
         [country_code |-> FRANCE,
          response |-> Response(jan1 + 5, jan1 + 6, TRUE, {}, BANK)]}

\* the orders in which _get_all_holidays(GERMANY) and then _get_all_holidays(FRANCE)
\* parse up to MaxResponses different responses
ResponseSequences ==
    {seq \in UNION {[1..n -> ResponsePool] : n \in 0..MaxResponses} :
        \A i, j \in DOMAIN seq :
           i < j => /\ seq[i] # seq[j]
                    /\ ~(seq[i].country_code = FRANCE /\ seq[j].country_code = GERMANY)}

\* _dates and _subdivisions after the responses of seq from the i-th on are parsed
RECURSIVE Parsed(_, _, _, _)
Parsed(ds, reg, seq, i) ==
    IF i > Len(seq)
    THEN [exc |-> {}, dates |-> ds, reg |-> reg]
    ELSE LET r == parse_holiday_response(ds, reg, Year, seq[i].country_code, seq[i].response)
         IN  IF r.exc # {} THEN r ELSE Parsed(r.dates, r.reg, seq, i + 1)

\* _subdivisions after the first gather of initialize
Registries ==
    {[c \in ConfiguredCountries |->
         ParseSubdivisions(EmptyDict, IF c = GERMANY THEN de ELSE fr)] :
        de \in SubdivisionResults(GERMANY), fr \in SubdivisionResults(FRANCE)}

\* async with holiday_year has entered: initialize has returned without an
\* exception; the YearOverview sheet is either not constructed yet or written
Initialized(overview_written) ==
    /\ \E reg \in Registries : \E seq \in ResponseSequences :
          LET r == Parsed(InitDates(Year), reg, seq, 1)
          IN  /\ r.exc = {}
              /\ dates = IF overview_written
                         THEN [date \in DOMAIN r.dates |-> TouchHolidayTypes(r.dates[date])]
                         ELSE r.dates
              /\ subdivisions = r.reg
              /\ calls = Len(seq)
              /\ last = IF seq = <<>> THEN {}
                        ELSE {[country_code |-> seq[Len(seq)].country_code,
                               response |-> seq[Len(seq)].response, exc |-> {}]}
    /\ \E results \in CountryResults :
          country_code_mapping = {c \in results : c \in ConfiguredCountries}
    /\ sub_task = [c \in ConfiguredCountries |-> "done"]
    /\ countries_task = "done"
    /\ hol_task = [c \in ConfiguredCountries |-> "done"]
    /\ running = {}
    /\ init_pc = "returned"
    /\ main_pc = IF overview_written THEN "calendar" ELSE AEnter({})
    /\ error = {}
    /\ sink = IF overview_written THEN {"Uebersicht"} ELSE {}

----------------------------------------------------------------------------
(* main(): the YearOverview sheet, pass by pass *)

InitOverview ==
    /\ Initialized(FALSE)
    /\ NoDatetimeCall
    /\ NoSheet

\* YearOverview(holiday_year, ...): __init__
OverviewInit ==
    /\ main_pc = "overview" /\ excel_pc = "none"
    /\ LET r == YearOverview_init(subdivisions, country_code_mapping)
       IN  /\ state_row_numbers' = r.rows
           /\ formats' = IF r.exc = {} THEN YearOverview_init_formats(formats)
                          ELSE ExcelBase_init(formats)
           /\ excel_pc' = IF r.exc = {} THEN "division names" ELSE "raised"
           /\ main_pc' = IF r.exc = {} THEN main_pc ELSE "raised"
    /\ UNCHANGED <<dates, subdivisions, country_code_mapping, sub_task, countries_task,
                   hol_task, running, init_pc, error, calls, last, sink>>
    /\ UNCHANGED <<datetime_vars, worksheet, day_containers>>

\* write_year: self.write_division_names()
OverviewWriteDivisionNames ==
    /\ main_pc = "overview" /\ excel_pc = "division names"
    /\ worksheet' = YearOverview_write_division_names(worksheet, state_row_numbers)
    /\ excel_pc' = "month names"
    /\ UNCHANGED <<holiday_vars, datetime_vars, state_row_numbers, day_containers, formats>>

\* write_year: self.write_month_names()
OverviewWriteMonthNames ==
    /\ main_pc = "overview" /\ excel_pc = "month names"
    /\ worksheet' = YearOverview_write_month_names(worksheet, Year)
    /\ excel_pc' = "day numbers"
    /\ UNCHANGED <<holiday_vars, datetime_vars, state_row_numbers, day_containers, formats>>

\* write_year: self.write_day_numbers()
OverviewWriteDayNumbers ==
    /\ main_pc = "overview" /\ excel_pc = "day numbers"
    /\ worksheet' = YearOverview_write_day_numbers(worksheet, Year, state_row_numbers)
    /\ excel_pc' = "week numbers"
    /\ UNCHANGED <<holiday_vars, datetime_vars, state_row_numbers, day_containers, formats>>

\* write_year: self.write_week_numbers()
OverviewWriteWeekNumbers ==
    /\ main_pc = "overview" /\ excel_pc = "week numbers"
    /\ worksheet' = YearOverview_write_week_numbers(worksheet, Year)
    /\ excel_pc' = "holiday dates"
    /\ UNCHANGED <<holiday_vars, datetime_vars, state_row_numbers, day_containers, formats>>

\* write_year: self.write_holiday_dates()
OverviewWriteHolidayDates ==
    /\ main_pc = "overview" /\ excel_pc = "holiday dates"
    /\ worksheet' = YearOverview_write_holiday_dates(worksheet, state_row_numbers, dates,
                                                     subdivisions, Year)
    /\ dates' = [date \in DOMAIN dates |-> TouchHolidayTypes(dates[date])]
    /\ formats' = YearOverview_holiday_date_formats(formats, dates, subdivisions, Year)
    /\ excel_pc' = "holiday count"
    /\ UNCHANGED <<subdivisions, country_code_mapping, sub_task, countries_task,
                   hol_task, running, init_pc, main_pc, error, calls, last, sink>>
    /\ UNCHANGED <<datetime_vars, state_row_numbers, day_containers>>

\* YearOverview.write_year: self.write_holiday_count_germany()
OverviewWriteHolidayCount ==
    /\ main_pc = "overview" /\ excel_pc = "holiday count"
    /\ worksheet' = YearOverview_write_holiday_count_germany(worksheet, dates, subdivisions, Year)
    /\ formats' = YearOverview_holiday_count_formats(formats, dates, subdivisions, Year)
    /\ excel_pc' = "columns and panes"
    /\ UNCHANGED <<holiday_vars, datetime_vars, state_row_numbers, day_containers>>

\* YearOverview.write_year: set_column and freeze_panes; the with block of main() ends
OverviewFinish ==
    /\ main_pc = "overview" /\ excel_pc = "columns and panes"
    /\ worksheet' = YearOverview_finish(worksheet, Year)
    /\ excel_pc' = "done"
    /\ sink' = sink \cup {"Uebersicht"}
    /\ main_pc' = "calendar"
    /\ UNCHANGED <<dates, subdivisions, country_code_mapping, sub_task, countries_task,
                   hol_task, running, init_pc, error, calls, last>>
    /\ UNCHANGED <<datetime_vars, state_row_numbers, day_containers, formats>>

NextOverview ==
    \/ OverviewInit
    \/ OverviewWriteDivisionNames
    \/ OverviewWriteMonthNames
    \/ OverviewWriteDayNumbers
    \/ OverviewWriteWeekNumbers
    \/ OverviewWriteHolidayDates
    \/ OverviewWriteHolidayCount
    \/ OverviewFinish

SpecOverview == InitOverview /\ [][NextOverview]_vars

----------------------------------------------------------------------------
(* main(): the YearCalendar sheet, pass by pass *)

InitCalendar ==
    /\ Initialized(TRUE)
    /\ NoDatetimeCall
    /\ NoSheet

\* YearCalendar(holiday_year, ..., foreign_country_code=FRANCE): __init__
CalendarInit ==
    /\ main_pc = "calendar" /\ excel_pc = "none"
    /\ day_containers' = EmptyDict
    /\ formats' = ExcelBase_init(formats)
    /\ excel_pc' = "division names"
    /\ UNCHANGED <<holiday_vars, datetime_vars, state_row_numbers, worksheet>>

\* write_year: self.write_division_names()
CalendarWriteDivisionNames ==
    /\ main_pc = "calendar" /\ excel_pc = "division names"
    /\ worksheet' = YearCalendar_write_division_names(worksheet, foreign_country_code)
    /\ excel_pc' = "month names"
    /\ UNCHANGED <<holiday_vars, datetime_vars, state_row_numbers, day_containers, formats>>

\* write_year: self.write_month_names()
CalendarWriteMonthNames ==
    /\ main_pc = "calendar" /\ excel_pc = "month names"
    /\ worksheet' = YearCalendar_write_month_names(worksheet)
    /\ excel_pc' = "day numbers"
    /\ UNCHANGED <<holiday_vars, datetime_vars, state_row_numbers, day_containers, formats>>

\* write_year: self.write_day_numbers()
CalendarWriteDayNumbers ==
    /\ main_pc = "calendar" /\ excel_pc = "day numbers"
    /\ LET r == YearCalendar_write_day_numbers(day_containers, worksheet, Year)
       IN  /\ day_containers' = r.dc
           /\ worksheet' = r.ws
    /\ excel_pc' = "week numbers"
    /\ UNCHANGED <<holiday_vars, datetime_vars, state_row_numbers, formats>>

\* write_year: self.write_week_numbers(), which does nothing
CalendarWriteWeekNumbers ==
    /\ main_pc = "calendar" /\ excel_pc = "week numbers"
    /\ excel_pc' = "holiday dates"
    /\ UNCHANGED <<holiday_vars, datetime_vars, state_row_numbers, worksheet, day_containers, formats>>

\* write_year: self.write_holiday_dates()
CalendarWriteHolidayDates ==
    /\ main_pc = "calendar" /\ excel_pc = "holiday dates"
    /\ day_containers' = YearCalendar_write_holiday_dates(day_containers, dates, subdivisions,
                                                          Year, foreign_country_code)
    /\ excel_pc' = "commit"
    /\ UNCHANGED <<holiday_vars, datetime_vars, state_row_numbers, worksheet, formats>>

\* YearCalendar.write_year: the loop over year_range; the with block of main() ends
CalendarCommit ==
    /\ main_pc = "calendar" /\ excel_pc = "commit"
    /\ LET r == YearCalendar_commit(day_containers, worksheet, Year)
       IN  /\ day_containers' = r.dc
           /\ worksheet' = r.ws
    /\ formats' = YearCalendar_commit_formats(formats, day_containers, year_range(Year))
    /\ excel_pc' = "done"
    /\ sink' = sink \cup {"Kalender"}
    /\ main_pc' = "done"
    /\ UNCHANGED <<dates, subdivisions, country_code_mapping, sub_task, countries_task,
                   hol_task, running, init_pc, error, calls, last>>
    /\ UNCHANGED <<datetime_vars, state_row_numbers>>

NextCalendar ==
    \/ CalendarInit
    \/ CalendarWriteDivisionNames
    \/ CalendarWriteMonthNames
    \/ CalendarWriteDayNumbers
    \/ CalendarWriteWeekNumbers
    \/ CalendarWriteHolidayDates
    \/ CalendarCommit

SpecCalendar == InitCalendar /\ [][NextCalendar]_vars

----------------------------------------------------------------------------
(* Vocabulary of the properties *)

Jan1 == Date(Year, 1, 1)
Dec31 == Date(Year, 12, 31)

\* the entry of (country, date), an absent one read as the empty explicit set
Entry(ds, c, d) == Get(ds[d].country_codes, c, Explicit({}))

HasEntry(ds, c, d) == c \in DOMAIN ds[d].country_codes

IsNationwide(ds, c, d) == HasEntry(ds, c, d) /\ ds[d].country_codes[c].nation_wide

\* the registered (flattened) regions of a country
Registered(reg, c) == LET d == Get(reg, c, EmptyDict) IN {d[code] : code \in DOMAIN d}

RegisteredCodes(reg, c) == DOMAIN Get(reg, c, EmptyDict)

\* regionCount: the number of registered regions, 1 for a country with none
RegionCount(reg, c) ==
    IF RegisteredCodes(reg, c) = {} THEN 1 ELSE Cardinality(RegisteredCodes(reg, c))

\* the step is a call of _parse_holiday_response(l.country_code, l.response)
Called(l) == calls' = calls + 1 /\ l \in last'

\* the dates of the year a response with start <= end covers
Clamped(h) == Max(h.start_date, Jan1) .. Min(h.end_date, Dec31)

----------------------------------------------------------------------------
(* C1 *)

\* C1: once the entry of a (country, date) is Nationwide, every later step
\* (a nationwide or an explicit contribution, or any other) leaves it Nationwide
\* and does not make the coverage count of that (country, date) smaller.
C1_NationwideNeverDowngraded ==
    [][\A c \in ConfiguredCountries : \A d \in DOMAIN dates :
          IsNationwide(dates, c, d) =>
             /\ d \in DOMAIN dates'
             /\ IsNationwide(dates', c, d)
             /\ get_count_for_country_and_date(dates', subdivisions', c, d)
                   >= get_count_for_country_and_date(dates, subdivisions, c, d)]_vars

\* an explicit region set was applied to a date whose entry was Nationwide, and it still is
C1_Witness ==
    \E l \in last :
       /\ l.exc = {}
       /\ ~l.response.nationwide
       /\ l.response.subdivisions # {}
       /\ l.response.start_date = Jan1 + 1
       /\ l.response.end_date = Jan1 + 1
       /\ IsNationwide(dates, l.country_code, Jan1 + 1)
       /\ get_count_for_country_and_date(dates, subdivisions, l.country_code, Jan1 + 1) = 3

----------------------------------------------------------------------------
(* C2 *)

\* C2: a call that applies an explicit region set S to a date whose entry E is
\* not Nationwide leaves the entry E \cup S (S as resolved through the registry),
\* and applying the same response once more changes nothing.
C2_ExplicitSetIsUnited ==
    [][\A l \in last' :
          (Called(l) /\ l.exc = {} /\ ~l.response.nationwide
                     /\ l.response.start_date <= l.response.end_date) =>
             LET c == l.country_code
                 S == {subdivisions[c][code] : code \in l.response.subdivisions}
             IN  /\ \A d \in Clamped(l.response) :
                       ~IsNationwide(dates, c, d) =>
                          /\ HasEntry(dates', c, d)
                          /\ dates'[d].country_codes[c] = Explicit(Entry(dates, c, d).subs \cup S)
                 /\ parse_holiday_response(dates', subdivisions', Year, c, l.response).dates
                       = dates']_vars

\* {DE-BW, DE-BY} and then {DE-BY, DE-BY-AU} on the same date: three regions, count 3
C2_Witness ==
    \E l \in last :
       /\ l.exc = {}
       /\ l.response.subdivisions = {"DE-BY", "DE-BY-AU"}
       /\ l.response.start_date = Jan1 + 1
       /\ l.response.end_date = Jan1 + 1
       /\ ~IsNationwide(dates, GERMANY, Jan1 + 1)
       /\ {s.code : s \in Entry(dates, GERMANY, Jan1 + 1).subs} = {"DE-BW", "DE-BY", "DE-BY-AU"}
       /\ get_count_for_country_and_date(dates, subdivisions, GERMANY, Jan1 + 1) = 3

----------------------------------------------------------------------------
(* C3 *)

\* the percentage of (c, d) is in [0,1], and is 1.0 exactly when the country has
\* an entry on that date that is Nationwide or equals the registered regions
PercentageOk(ds, reg, c, d) ==
    LET p == get_percentage_for_country_and_date(ds, reg, c, d)
    IN  /\ p.den > 0
        /\ 0 <= p.num
        /\ p.num <= p.den
        /\ (p.num = p.den) <=>
              /\ HasEntry(ds, c, d)
              /\ \/ IsNationwide(ds, c, d)
                 \/ Entry(ds, c, d).subs = Registered(reg, c)

\* C3: in every reachable state, for every configured country and every date of
\* the year, the percentage num/den satisfies 0 <= num <= den (it is in [0,1]),
\* and it is 1.0 exactly when the country has an entry on that date that is
\* Nationwide or is an explicit set equal to the set of all registered regions.
\* Stated inductively: it holds of every (country, date) initially, and after a
\* step of every (country, date) whose HolidayDate or whose registry the step
\* changed (the percentage reads nothing else).
C3_PercentageInUnitInterval ==
    /\ \A c \in ConfiguredCountries : \A d \in DOMAIN dates :
          PercentageOk(dates, subdivisions, c, d)
    /\ [][(subdivisions' # subdivisions \/ dates' # dates) =>
             \A d \in DOMAIN dates' :
                (subdivisions' # subdivisions \/ d \notin DOMAIN dates \/ dates'[d] # dates[d])
                   => \A c \in ConfiguredCountries : PercentageOk(dates', subdivisions', c, d)]_vars

\* an explicit set that covers every registered region, and a date covered in part
C3_Witness ==
    /\ ~IsNationwide(dates, GERMANY, Jan1 + 1)
    /\ Entry(dates, GERMANY, Jan1 + 1).subs = Registered(subdivisions, GERMANY)
    /\ get_percentage_for_country_and_date(dates, subdivisions, GERMANY, Jan1 + 1)
          = [num |-> 3, den |-> 3]
    /\ get_percentage_for_country_and_date(dates, subdivisions, GERMANY, Jan1)
          = [num |-> 2, den |-> 3]

----------------------------------------------------------------------------
(* C4 *)

\* the count of (c, d) is the coverage of its entry
CountOk(ds, reg, c, d) ==
    get_count_for_country_and_date(ds, reg, c, d) =
       IF ~HasEntry(ds, c, d) THEN 0
       ELSE IF IsNationwide(ds, c, d) THEN RegionCount(reg, c)
       ELSE Cardinality({s.code : s \in ds[d].country_codes[c].subs})

\* C4: the count of a (country, date) is 0 without an entry, the number of
\* distinct regions of an explicit entry, and for a Nationwide entry the number
\* of registered regions of the country, 1 when it has none; after a single
\* nationwide one-day interval the count on that date is regionCount and the
\* percentage is 1.0.  The first part is stated inductively, as for C3.
C4_CountIsCoverage ==
    /\ \A c \in ConfiguredCountries : \A d \in DOMAIN dates :
          CountOk(dates, subdivisions, c, d)
    /\ [][/\ (subdivisions' # subdivisions \/ dates' # dates) =>
                \A d \in DOMAIN dates' :
                   (subdivisions' # subdivisions \/ d \notin DOMAIN dates \/ dates'[d] # dates[d])
                      => \A c \in ConfiguredCountries : CountOk(dates', subdivisions', c, d)
          /\ \A l \in last' :
                (calls' = 1 /\ l.exc = {} /\ l.response.nationwide
                            /\ l.response.start_date = l.response.end_date
                            /\ l.response.start_date \in Jan1..Dec31) =>
                   LET c == l.country_code
                       d == l.response.start_date
                       p == get_percentage_for_country_and_date(dates', subdivisions', c, d)
                   IN  /\ get_count_for_country_and_date(dates', subdivisions', c, d)
                             = RegionCount(subdivisions', c)
                       /\ p.num = p.den]_vars

\* a single nationwide one-day interval for a country without registered regions
C4_Witness ==
    \E l \in last :
       /\ calls = 1 /\ l.exc = {} /\ l.response.nationwide
       /\ l.response.start_date = Jan1 + 1
       /\ l.response.end_date = Jan1 + 1
       /\ l.country_code = FRANCE
       /\ RegisteredCodes(subdivisions, FRANCE) = {}
       /\ get_count_for_country_and_date(dates, subdivisions, FRANCE, Jan1 + 1) = 1

----------------------------------------------------------------------------
(* C5 *)

\* C5: a call with an interval that lies entirely before Jan 1 or entirely after
\* Dec 31 of the year changes no HolidayDate (no coverage entry, no kind tag).
C5_IntervalOutsideYearIsSkipped ==
    [][\A l \in last' :
          (Called(l) /\ l.response.start_date <= l.response.end_date
                     /\ (l.response.end_date < Jan1 \/ l.response.start_date > Dec31))
             => dates' = dates]_vars

----------------------------------------------------------------------------
(* C6 *)

\* C6: the index holds exactly the dates Jan 1 .. Dec 31 of the year, initially
\* and after every step; a call with an interval with start <= end that overlaps
\* the year leaves every date outside [max(start, Jan 1), min(end, Dec 31)]
\* unchanged and, when it does not raise, has applied its contribution to
\* every date inside (the country has an entry there, Nationwide for a nationwide
\* interval, else Nationwide already or holding the regions of the interval).
C6_IndexIsTheYearAndIntervalsAreClamped ==
    /\ DOMAIN dates = Jan1..Dec31
    /\ [][/\ DOMAIN dates' = Jan1..Dec31
          /\ \A l \in last' :
                (Called(l) /\ l.response.start_date <= l.response.end_date
                           /\ l.response.end_date >= Jan1
                           /\ l.response.start_date <= Dec31) =>
                   LET c == l.country_code
                       h == l.response
                   IN  \A d \in DOMAIN dates :
                          IF d \in Clamped(h)
                          THEN l.exc = {} =>
                                  /\ HasEntry(dates', c, d)
                                  /\ h.nationwide => IsNationwide(dates', c, d)
                                  /\ ~h.nationwide =>
                                        \/ IsNationwide(dates', c, d)
                                        \/ h.subdivisions \subseteq
                                              {s.code : s \in Entry(dates', c, d).subs}
                          ELSE dates'[d] = dates[d]]_vars

\* an interval that begins before the year and one that ends after it were applied:
\* Jan 1, Jan 2 and Dec 31 are covered, Jan 3 and Dec 30 are not
C6_Witness ==
    \E l \in last :
       /\ l.exc = {}
       /\ calls = 2
       /\ l.response.start_date = Dec31
       /\ l.response.end_date > Dec31
       /\ HasEntry(dates, GERMANY, Jan1)
       /\ HasEntry(dates, GERMANY, Jan1 + 1)
       /\ ~HasEntry(dates, GERMANY, Jan1 + 2)
       /\ ~HasEntry(dates, GERMANY, Dec31 - 1)
       /\ HasEntry(dates, GERMANY, Dec31)

----------------------------------------------------------------------------
(* C7 *)

\* C7: a call whose response references a subdivision code that the registry of
\* the country does not hold raises (a KeyError) to its caller, whose task fails
\* with it, and has changed no HolidayDate.
C7_UnknownSubdivisionIsRaised ==
    [][\A l \in last' :
          (Called(l) /\ \E code \in l.response.subdivisions :
                           code \notin RegisteredCodes(subdivisions, l.country_code))
             => /\ l.exc = {"KeyError"}
                /\ dates' = dates
                /\ hol_task'[l.country_code] = "failed"
                /\ error' # {}]_vars

\* a response of a partly aggregated year named DE-XX: the KeyError is the error of the run
C7_Witness ==
    \E l \in last :
       /\ l.response.subdivisions = {"DE-XX"}
       /\ l.exc = {"KeyError"}
       /\ error = {"KeyError"}
       /\ hol_task[GERMANY] = "failed"
       /\ calls = 2
       /\ IsNationwide(dates, GERMANY, Jan1 + 1)

----------------------------------------------------------------------------
(* C8 *)

\* C8: a call whose response is both nationwide and carries a non-empty region
\* set, or is neither, raises and changes no HolidayDate.
C8_AmbiguousDescriptorIsRejected ==
    [][\A l \in last' :
          (Called(l) /\ (l.response.nationwide <=> l.response.subdivisions # {}))
             => /\ l.exc # {}
                /\ dates' = dates]_vars

----------------------------------------------------------------------------
(* C9 *)

\* C9: a call whose response has its start date after its end date raises: the
\* interval is rejected, neither applied nor ignored.
C9_StartAfterEndIsRejected ==
    [][\A l \in last' :
          (Called(l) /\ l.response.start_date > l.response.end_date) => l.exc # {}]_vars

----------------------------------------------------------------------------
(* C10 *)

\* C10: once a task of initialize has raised, main() is still entering the
\* HolidayYear context or has left it with the exception, which initialize can
\* raise as soon as no parse loop runs; nothing is ever written to the workbook.
C10_NoRenderingAfterAnError ==
    error # {} =>
       /\ sink = {}
       /\ \/ main_pc = "raised"
          \/ /\ main_pc = "aenter"
             /\ running = {} => ENABLED InitializeEnds

\* the second response raised on a partly aggregated year and main() has ended with it
C10_Witness ==
    \E l \in last :
       /\ l.exc # {}
       /\ error = l.exc
       /\ calls = 2
       /\ main_pc = "raised"
       /\ init_pc = "raised"
       /\ sink = {}
       /\ \E d \in DOMAIN dates : dates[d].country_codes # EmptyDict

----------------------------------------------------------------------------
(* C11 *)

\* the registry holds the flattened tree of a result of get_subdivisions(c)
RegistryStored(c) ==
    /\ c \in DOMAIN subdivisions
    /\ \E results \in SubdivisionResults(c) :
          subdivisions[c] = ParseSubdivisions(EmptyDict, results)

\* the countries of a result of get_countries are stored
CountriesStored ==
    \E results \in CountryResults :
       country_code_mapping = {c \in results : c \in ConfiguredCountries}

\* C11: in every reachable state (every interleaving of the tasks), when a
\* holiday fetch has been issued (a _get_all_holidays task exists) or a response
\* has been parsed, the subdivisions task of every configured country and the
\* countries task are done and their results are stored.
C11_HolidaysAfterRegistry ==
    ((\E c \in ConfiguredCountries : hol_task[c] # "not started") \/ calls > 0 \/ running # {})
       => /\ countries_task = "done"
          /\ CountriesStored
          /\ \A c \in ConfiguredCountries : sub_task[c] = "done" /\ RegistryStored(c)

\* a response of France has been parsed while the holiday fetch of Germany is pending
C11_Witness ==
    /\ hol_task[FRANCE] = "parsing"
    /\ hol_task[GERMANY] = "pending"
    /\ calls = 1
    /\ \E l \in last : l.exc = {} /\ l.country_code = FRANCE
    /\ countries_task = "done"
    /\ \A c \in ConfiguredCountries : sub_task[c] = "done" /\ RegistryStored(c)

----------------------------------------------------------------------------
(* C15 *)

\* the kind tag of a HolidayResponse type ({} for a type that is not tagged)
KindOf(type) ==
    IF type \in {SCHOOL, BACK_TO_SCHOOL, END_OF_LESSONS} THEN {EnumSCHOOL}
    ELSE IF type \in {BANK, PUBLIC} THEN {EnumPUBLIC}
    ELSE {}

\* C15: a call that applies an interval of kind K without raising has tagged, on
\* every date of the year it covers, every region it lists with K and, when it is
\* nationwide, every registered region of the country with K.
C15_NationwideTagsEveryRegion ==
    [][\A l \in last' :
          (Called(l) /\ l.exc = {} /\ l.response.start_date <= l.response.end_date) =>
             LET c == l.country_code
                 regions == IF l.response.nationwide
                            THEN RegisteredCodes(subdivisions', c)
                            ELSE l.response.subdivisions
             IN  \A d \in Clamped(l.response) : \A r \in regions :
                    KindOf(l.response.type) \subseteq Get(dates'[d].holiday_type, r, {})]_vars

----------------------------------------------------------------------------
(* C16 *)

\* C16: truncate_to_year(date, year) is the date itself when the date lies in
\* [Jan 1 year, Dec 31 year], Jan 1 of the year when the date is earlier and
\* Dec 31 of the year when it is later; truncating the result once more for
\* the same year returns the result unchanged.
C16_TruncateToYearClampsIdempotent ==
    LET min_date == Date(input.year, 1, 1)
        max_date == Date(input.year, 12, 31)
    IN  /\ output.function = "truncate_to_year" =>
              /\ (min_date <= input.date /\ input.date <= max_date) => output.result = input.date
              /\ input.date < min_date => output.result = min_date
              /\ input.date > max_date => output.result = max_date
        /\ output.function = "truncate_to_year of the result" =>
              output.result = output.first

\* a date after Dec 31 of the year was truncated, and the result truncated again
C16_Witness ==
    /\ output.function = "truncate_to_year of the result"
    /\ input.date > Date(input.year, 12, 31)
    /\ output.first = Date(input.year, 12, 31)

----------------------------------------------------------------------------
(* C17 *)

\* C17: for start <= end, date_range(start, end) without a year limit yields
\* start, start + 1, ..., end in strictly ascending order, both ends included,
\* (end - start).days + 1 dates in all; date_range(d, d) yields d alone; a
\* second call with the same arguments yields the same sequence.
C17_DateRangeInclusiveAscending ==
    /\ (output.function = "date_range" /\ input.date <= input.end_date) =>
          /\ Len(output.result) = (input.end_date - input.date) + 1
          /\ output.result[1] = input.date
          /\ output.result[Len(output.result)] = input.end_date
          /\ \A i \in 1..(Len(output.result) - 1) :
                output.result[i + 1] = output.result[i] + 1
          /\ input.date = input.end_date => output.result = <<input.date>>
    /\ output.function = "date_range again" => output.result = output.first

\* a range of several dates that crosses the end of a year was enumerated twice
C17_Witness ==
    /\ output.function = "date_range again"
    /\ Len(output.first) = Margin + 1
    /\ YearOf(input.date) < YearOf(input.end_date)

----------------------------------------------------------------------------
(* C18 *)

\* the Mondays of the ISO weeks that have a day in the year
MondaysOf(year) ==
    {monday \in (Date(year, 1, 1) - 6)..Date(year, 12, 31) : weekday(monday) = MONDAY}

\* the cell writes and the merged ranges of the week number row with the span [lo, hi]
WeekCells(lo, hi) ==
    IF lo = hi /\ <<Overview_WEEK_NUMBERS, lo>> \in DOMAIN worksheet.cells
    THEN worksheet.cells[<<Overview_WEEK_NUMBERS, lo>>]
    ELSE <<>>

WeekMerges(lo, hi) ==
    SelectSeq(worksheet.merges,
              LAMBDA m : m.first_row = Overview_WEEK_NUMBERS /\ m.last_row = Overview_WEEK_NUMBERS
                         /\ m.first_col = lo /\ m.last_col = hi)

\* the number of cell writes and merged ranges of the week number row that hold the column
WeekEmissionsAt(column) ==
    Len(WeekCells(column, column))
        + Len(SelectSeq(worksheet.merges,
                        LAMBDA m : m.first_row = Overview_WEEK_NUMBERS
                                   /\ m.first_col <= column /\ column <= m.last_col))

\* C18: write_week_numbers emits every ISO week that has a day in the target
\* year exactly once, with the columns day_of_year(clamp(monday)) to
\* day_of_year(clamp(sunday)): as one cell when the span is one column, as one
\* merged range otherwise; the spans are pairwise disjoint and cover every
\* day column 1..365/366, and nothing else is emitted.
C18_WeekNumbersOncePerWeek ==
    worksheet # EmptyWorksheet =>
        LET year == input.year
            first_col(monday) == day_of_year(truncate_to_year(monday, year))
            last_col(monday) == day_of_year(truncate_to_year(monday + 6, year))
        IN  /\ \A monday \in MondaysOf(year) :
                  LET lo == first_col(monday)
                      hi == last_col(monday)
                      cells == WeekCells(lo, hi)
                      merges == WeekMerges(lo, hi)
                  IN  /\ lo = hi => (Len(cells) = 1 /\ Len(merges) = 0
                                     /\ cells[1].data = ToString(IsoWeekOf(monday)))
                      /\ lo < hi => (Len(cells) = 0 /\ Len(merges) = 1
                                     /\ merges[1].data = ToString(IsoWeekOf(monday)))
            /\ \A column \in 1..((Date(year, 12, 31) - Date(year, 1, 1)) + 1) :
                  WeekEmissionsAt(column) = 1
            /\ DOMAIN worksheet.cells \subseteq
                  {<<Overview_WEEK_NUMBERS, first_col(monday)>> : monday \in MondaysOf(year)}
            /\ Len(worksheet.merges) + Cardinality(DOMAIN worksheet.cells)
                  = Cardinality(MondaysOf(year))

\* the week numbers of a year that starts on a Sunday and ends on a Monday
\* were written: its first and its last week are one column wide, and the
\* first one belongs to the previous ISO year
C18_Witness ==
    /\ worksheet # EmptyWorksheet
    /\ weekday(Date(input.year, 1, 1)) = SUNDAY
    /\ <<Overview_WEEK_NUMBERS, 1>> \in DOMAIN worksheet.cells
    /\ <<Overview_WEEK_NUMBERS, 366>> \in DOMAIN worksheet.cells
    /\ Len(worksheet.merges) = 52

----------------------------------------------------------------------------
(* C12 *)

\* the write call a coordinate shows: the last one it received
Shown(row, col) == worksheet.cells[<<row, col>>][Len(worksheet.cells[<<row, col>>])]

\* the coordinate of a part of the day of a date in the month grid
MonthGridRow(date) == get_month_row_offset(Year, MonthOf(date)) + DayOf(date)
MonthGridCol(date, part) ==
    get_month_column_offset(MonthOf(date))
        + (IF part = "week_number" THEN 0 ELSE IF part = "day_number" THEN 1 ELSE 2)

\* the parts of the day of a date
Parts == {"week_number", "day_number", "field"}

\* the style keys the day-number pass sets on a part of a date, with their values
DayNumberPassStyle(date, part) ==
    LET last_day == DayOf(date) = DaysInMonth(Year, MonthOf(date))
        bottom == IF weekday(date) = SUNDAY \/ last_day THEN "bottom" :> 1 ELSE EmptyDict
        top == IF weekday(date) = SATURDAY \/ DayOf(date) = 1 THEN "top" :> 1 ELSE EmptyDict
        fill == IF weekday(date) \in {SATURDAY, SUNDAY}
                THEN "fg_color" :> WEEKEND_COLOR ELSE EmptyDict
        sides == IF part = "day_number" THEN "right" :> 1
                 ELSE IF part = "week_number" THEN ("left" :> 1) @@ ("right" :> 0)
                 ELSE ("left" :> 1) @@ ("right" :> 1)
    IN  bottom @@ top @@ fill @@ sides

\* the style keys the later holiday pass sets on a part of a date, with their values
HolidayPassStyle(date, part) ==
    LET entries == dates[date].country_codes
        Gray(c) ==
            LET percentage == get_percentage_for_country_and_date(dates, subdivisions, c, date)
            IN  ("fg_color" :> get_gray_scale_color(percentage))
                   @@ ("font_color" :> IF 2 * percentage.num < percentage.den
                                       THEN "#000000" ELSE "#FFFFFF")
    IN  IF part = "day_number"
        THEN (IF GERMANY \in DOMAIN entries THEN Gray(GERMANY) ELSE EmptyDict)
        ELSE IF part = "week_number"
        THEN (IF \E c \in foreign_country_code : c \in DOMAIN entries
              THEN Gray(CHOOSE c \in foreign_country_code : c \in DOMAIN entries)
              ELSE EmptyDict)
        ELSE (IF GERMANY \in DOMAIN entries /\ entries[GERMANY].nation_wide
              THEN "fg_color" :> PUBLIC_HOLIDAY_COLOR ELSE EmptyDict)

\* C12: in the month grid the style committed for a cell holds every key an
\* earlier pass set, with the value of the earlier pass unless a later pass set
\* the same key, and then with the later value; so the border keys of the
\* day-number pass and the fill colour of the later holiday pass are both
\* present in the committed style.
C12_StyleKeysSurviveLaterPasses ==
    (day_containers # EmptyDict /\ excel_pc = "done") =>
        \A date \in DOMAIN dates : \A part \in Parts :
           LET committed == Shown(MonthGridRow(date), MonthGridCol(date, part)).cell_format
               earlier == DayNumberPassStyle(date, part)
               later == HolidayPassStyle(date, part)
           IN  /\ DOMAIN committed = (DOMAIN earlier) \cup (DOMAIN later)
               /\ \A key \in DOMAIN later : committed[key] = later[key]
               /\ \A key \in (DOMAIN earlier) \ (DOMAIN later) : committed[key] = earlier[key]

\* the month grid is committed; the day number of Saturday, Jan 6, a holiday of
\* regions of Germany, has the borders of the day-number pass (top and right) and
\* the gray fill of the holiday pass in place of the weekend fill
C12_Witness ==
    /\ day_containers # EmptyDict /\ excel_pc = "done"
    /\ LET date == Date(Year, 1, 6)
           committed == Shown(MonthGridRow(date), MonthGridCol(date, "day_number")).cell_format
       IN  /\ GERMANY \in DOMAIN dates[date].country_codes
           /\ {"top", "right", "fg_color", "font_color"} \subseteq DOMAIN committed
           /\ committed["top"] = 1 /\ committed["right"] = 1
           /\ committed["fg_color"] \in {GRAY_SCALE[i] : i \in DOMAIN GRAY_SCALE}
           /\ DayNumberPassStyle(date, "day_number")["fg_color"] = WEEKEND_COLOR

----------------------------------------------------------------------------
(* C13 *)

\* the part of a day container
PartOf(day_container, part) ==
    IF part = "week_number" THEN day_container.week_number
    ELSE IF part = "day_number" THEN day_container.day_number
    ELSE day_container.field

\* C13: YearCalendar.write_year writes the week-number, the day-number and the
\* field cell of every date of the year to the worksheet exactly once, in the
\* commit that follows the accumulating passes: before the commit none of them
\* is written, after it each has received one write, with the accumulated
\* content and style, and no other cell below the header rows is written.
C13_EveryCellCommittedOnce ==
    /\ (main_pc = "calendar" /\ excel_pc # "done") =>
          \A coordinate \in DOMAIN worksheet.cells : coordinate[1] <= Calendar_DESCRIPTION
    /\ (day_containers # EmptyDict /\ excel_pc = "done") =>
          /\ \A date \in DOMAIN dates : \A part \in Parts :
                LET coordinate == <<MonthGridRow(date), MonthGridCol(date, part)>>
                    accumulated == PartOf(day_containers[date], part)
                IN  /\ coordinate \in DOMAIN worksheet.cells
                    /\ Len(worksheet.cells[coordinate]) = 1
                    /\ worksheet.cells[coordinate][1].data = accumulated.content
                    /\ worksheet.cells[coordinate][1].cell_format = Mapping(accumulated.format)
          /\ Cardinality({coordinate \in DOMAIN worksheet.cells :
                             coordinate[1] > Calendar_DESCRIPTION})
                = 3 * Cardinality(DOMAIN dates)

\* the month grid is committed: the cell of Dec 31 has received its one write,
\* and the three cells of Jan 1 carry the content the passes accumulated
C13_Witness ==
    /\ day_containers # EmptyDict /\ excel_pc = "done"
    /\ Len(worksheet.cells[<<MonthGridRow(Date(Year, 12, 31)),
                             MonthGridCol(Date(Year, 12, 31), "day_number")>>]) = 1
    /\ Shown(MonthGridRow(Date(Year, 1, 1)), MonthGridCol(Date(Year, 1, 1), "day_number")).data
          = "1"
    /\ Shown(MonthGridRow(Date(Year, 1, 1)), MonthGridCol(Date(Year, 1, 1), "week_number")).data
          = "1"
    /\ Cardinality(DOMAIN day_containers) = Cardinality(DOMAIN dates)

----------------------------------------------------------------------------
(* C14 *)

\* the region of Germany is covered on the date: by a nationwide entry or by
\* an explicit entry that holds it
Covered(holiday_date, code) ==
    /\ GERMANY \in DOMAIN holiday_date.country_codes
    /\ \/ holiday_date.country_codes[GERMANY].nation_wide
       \/ code \in {subdivision.code : subdivision \in holiday_date.country_codes[GERMANY].subs}

\* the region is tagged with the public and with the school kind on the date
TaggedPublicAndSchool(holiday_date, code) ==
    {EnumPUBLIC, EnumSCHOOL} \subseteq Get(holiday_date.holiday_type, code, {})

\* C14: once YearOverview.write_year has completed, the cell of every region of
\* Germany that is covered on a date and tagged with both the public and the
\* school kind shows the public-holiday fill, not the school-holiday fill.
C14_PublicFillOverSchool ==
    excel_pc = "done" =>
        \A date \in DOMAIN dates : \A code \in DOMAIN subdivisions[GERMANY] :
           (Covered(dates[date], code) /\ TaggedPublicAndSchool(dates[date], code)) =>
               LET cell == Shown(Lookup(state_row_numbers, code).row, day_of_year(date))
               IN  /\ cell.cell_format = PUBLIC_HOLIDAY_FORMAT
                   /\ cell.cell_format # SCHOOL_HOLIDAY_FORMAT

\* the sheet is written and DE-BY, part of a school holiday and of a public
\* holiday of regions on Jan 2, shows the public fill there while DE-BW, tagged
\* with the school kind only, shows the school fill
C14_Witness ==
    /\ excel_pc = "done"
    /\ LET date == Date(Year, 1, 2)
       IN  /\ Covered(dates[date], "DE-BY")
           /\ ~dates[date].country_codes[GERMANY].nation_wide
           /\ TaggedPublicAndSchool(dates[date], "DE-BY")
           /\ Shown(Lookup(state_row_numbers, "DE-BY").row, day_of_year(date)).cell_format
                 = PUBLIC_HOLIDAY_FORMAT
           /\ Shown(Lookup(state_row_numbers, "DE-BW").row, day_of_year(date)).cell_format
                 = SCHOOL_HOLIDAY_FORMAT

----------------------------------------------------------------------------
(* C20 *)

\* the codes of the registered regions of the configured countries
RegisteredRegions ==
    UNION {DOMAIN subdivisions[c] : c \in ConfiguredCountries \cap DOMAIN subdivisions}

\* the rows are pairwise distinct and lie below the header block
RowsDistinctBelowHeader ==
    /\ \A i, j \in DOMAIN state_row_numbers :
          i # j => state_row_numbers[i][2].row # state_row_numbers[j][2].row
    /\ \A i \in DOMAIN state_row_numbers :
          state_row_numbers[i][2].row > Overview_HOLIDAY_COUNT

\* the regions of Germany have the rows right below the header block, in
\* ascending order of their display names
GermanRegionsFirst ==
    LET de == subdivisions[GERMANY]
    IN  /\ DOMAIN de \subseteq Keys(state_row_numbers)
        /\ {Lookup(state_row_numbers, code).row : code \in DOMAIN de}
              = (Overview_HOLIDAY_COUNT + 1)..(Overview_HOLIDAY_COUNT + Cardinality(DOMAIN de))
        /\ \A a, b \in DOMAIN de :
              NameRank(de[a].name) < NameRank(de[b].name) =>
                  Lookup(state_row_numbers, a).row < Lookup(state_row_numbers, b).row

\* C20 (as claimed): every registered region of every configured country has
\* its own row; the rows are pairwise distinct and lie below the header block,
\* the regions of Germany come first in ascending display-name order on
\* consecutive rows, and the regions of the other countries follow.
C20_RowPerRegion ==
    excel_pc \notin {"none", "raised"} =>
        /\ RegisteredRegions \subseteq Keys(state_row_numbers)
        /\ RowsDistinctBelowHeader
        /\ GermanRegionsFirst
        /\ \A code \in RegisteredRegions \ DOMAIN subdivisions[GERMANY] :
              \A de \in DOMAIN subdivisions[GERMANY] :
                 Lookup(state_row_numbers, code).row > Lookup(state_row_numbers, de).row

\* C20 (amended): every registered region of Germany has its own row and every
\* other country of the registry has one row for the country as a whole, none
\* for its regions; the rows are pairwise distinct and lie below the header
\* block, the regions of Germany come first in ascending display-name order on
\* consecutive rows, and the rows of the other countries follow after one
\* empty row in ascending order of the countries' display names.
C20_RowPerGermanRegionAndForeignCountry ==
    excel_pc \notin {"none", "raised"} =>
        LET foreign == (DOMAIN subdivisions) \ {GERMANY}
            first_foreign_row ==
                Overview_HOLIDAY_COUNT + Cardinality(DOMAIN subdivisions[GERMANY]) + 2
        IN  /\ Keys(state_row_numbers) = (DOMAIN subdivisions[GERMANY]) \cup foreign
            /\ RowsDistinctBelowHeader
            /\ GermanRegionsFirst
            /\ {Lookup(state_row_numbers, c).row : c \in foreign}
                  = first_foreign_row..(first_foreign_row + Cardinality(foreign) - 1)
            /\ \A c \in foreign : Lookup(state_row_numbers, c).entity = CountryResponse(c)
            /\ \A a, b \in foreign :
                  NameRank(CountryNames[a]) < NameRank(CountryNames[b]) =>
                      Lookup(state_row_numbers, a).row < Lookup(state_row_numbers, b).row

\* the rows are assigned while France has the registered region FR-COR: France
\* has a row, FR-COR has none
C20_Witness ==
    /\ excel_pc = "division names"
    /\ "FR-COR" \in DOMAIN subdivisions[FRANCE]
    /\ FRANCE \in Keys(state_row_numbers)
    /\ "FR-COR" \notin Keys(state_row_numbers)
    /\ Lookup(state_row_numbers, "DE-BY-AU").row = Overview_HOLIDAY_COUNT + 1

----------------------------------------------------------------------------
(* C19 *)

\* the font colours that are light, and those that are dark
LightFonts == {"white", "#FFFFFF"}
DarkFonts == {"black", "#000000"}

\* the font colour fits the percentage: light from one half on, dark below
FontFits(font_color, percentage) ==
    IF 2 * percentage.num >= percentage.den
    THEN font_color \in LightFonts
    ELSE font_color \in DarkFonts

\* the cells of the single strip that are filled with a gray-scale colour: the
\* holiday count of every date and the row of a foreign country on its holidays
SingleStripFontsFit ==
    excel_pc = "done" =>
        \A date \in DOMAIN dates :
           /\ FontFits(Shown(Overview_HOLIDAY_COUNT, day_of_year(date)).cell_format.font_color,
                       get_percentage_for_country_and_date(dates, subdivisions, GERMANY, date))
           /\ \A c \in (DOMAIN dates[date].country_codes) \ {GERMANY} :
                 FontFits(Shown(Lookup(state_row_numbers, c).row,
                                day_of_year(date)).cell_format.font_color,
                          get_percentage_for_country_and_date(dates, subdivisions, c, date))

\* the cells of the month grid that are filled with a gray-scale colour: the day
\* number on a holiday of Germany and the week number on one of the foreign country
MonthGridFontsFit ==
    (day_containers # EmptyDict /\ excel_pc = "done") =>
        \A date \in DOMAIN dates :
           /\ GERMANY \in DOMAIN dates[date].country_codes =>
                 FontFits(Shown(MonthGridRow(date),
                                MonthGridCol(date, "day_number")).cell_format.font_color,
                          get_percentage_for_country_and_date(dates, subdivisions, GERMANY, date))
           /\ \A c \in (DOMAIN dates[date].country_codes) \cap foreign_country_code :
                 FontFits(Shown(MonthGridRow(date),
                                MonthGridCol(date, "week_number")).cell_format.font_color,
                          get_percentage_for_country_and_date(dates, subdivisions, c, date))

\* C19: every cell filled with a gray-scale colour has the light font colour
\* exactly when its percentage is at least one half and the dark font colour
\* when it is below, in the single strip and in the month grid alike.
C19_FontByPercentage == SingleStripFontsFit /\ MonthGridFontsFit

----------------------------------------------------------------------------
(* The commit loop of YearCalendar.write_year for the years of DatetimeYears:
   the month-grid sheet of a year without holidays, one month of the loop per
   step. input holds the year of the sheet and the month the loop has reached. *)

\* the dates of year_range(year) that lie in the month
DatesOfMonth(year, month) ==
    SubSeq(year_range(year), DaysBeforeMonth(year, month) + 1,
           DaysBeforeMonth(year, month) + DaysInMonth(year, month))

\* YearCalendar(...).write_year() has completed super().write_year()
InitMonthGrid ==
    /\ HolidayYearConstructed
    /\ output = {}
    /\ state_row_numbers = <<>>
    /\ \E year \in DatetimeYears :
          LET header == YearCalendar_write_month_names(
                            YearCalendar_write_division_names(EmptyWorksheet,
                                                              foreign_country_code))
              r == YearCalendar_write_day_numbers(EmptyDict, header, year)
          IN  /\ input = [year |-> year, month |-> 1]
              /\ day_containers = r.dc
              /\ worksheet = r.ws
    /\ formats = ExcelBase_init(NoFormats)
    /\ excel_pc = "commit"

\* write_year: the iterations of the loop over year_range for the dates of one month
CommitMonth ==
    /\ excel_pc = "commit"
    /\ LET days == DatesOfMonth(input.year, input.month)
           Body(ws, i) == CommitDate(ws, day_containers, input.year, days[i])
       IN  /\ worksheet' = ForLoop(Body, worksheet, 1, Len(days))
           /\ formats' = YearCalendar_commit_formats(formats, day_containers, days)
    /\ IF input.month = 12
       THEN excel_pc' = "done" /\ input' = input
       ELSE excel_pc' = excel_pc /\ input' = [input EXCEPT !.month = @ + 1]
    /\ UNCHANGED <<holiday_vars, output, state_row_numbers, day_containers>>

NextMonthGrid == CommitMonth

SpecMonthGrid == InitMonthGrid /\ [][NextMonthGrid]_vars

----------------------------------------------------------------------------
(* C25 *)

\* the dates the commit loop has been through
CommittedDates ==
    {date \in Date(input.year, 1, 1)..Date(input.year, 12, 31) :
        excel_pc = "done" \/ MonthOf(date) < input.month}

\* the coordinate of the cell of a kind (0 week number, 1 day number, 2 field)
\* of a date in the month grid
MonthGridCoordinate(date, kind) ==
    <<get_month_row_offset(input.year, MonthOf(date)) + DayOf(date),
      3 * (MonthOf(date) - 1) + kind>>

\* C25: in the month grid of any year, distinct (date, cell kind) pairs are
\* committed to distinct coordinates (row = month row offset + day of month,
\* column = 3 * (month - 1) + 0, 1 or 2), every committed row lies below the
\* month-name and description rows, and so every cell of the sheet, the header
\* cells included, has been written once only.
C25_MonthGridInjective ==
    LET coordinates == {MonthGridCoordinate(date, kind) : date \in CommittedDates,
                                                          kind \in 0..2}
    IN  /\ Cardinality(coordinates) = 3 * Cardinality(CommittedDates)
        /\ \A coordinate \in coordinates : coordinate[1] > Calendar_DESCRIPTION
        /\ coordinates = {c \in DOMAIN worksheet.cells : c[1] > Calendar_DESCRIPTION}
        /\ \A c \in DOMAIN worksheet.cells : Len(worksheet.cells[c]) = 1

\* the whole of a leap year whose January starts on a Monday has been committed:
\* Jan 1 is in row 2, right below the description row, and Feb 29 has its cells
C25_Witness ==
    /\ excel_pc = "done"
    /\ "year" \in DOMAIN input
    /\ IsLeap(input.year)
    /\ weekday(Date(input.year, 1, 1)) = MONDAY
    /\ MonthGridCoordinate(Date(input.year, 1, 1), 0) = <<Calendar_DESCRIPTION + 1, 0>>
    /\ MonthGridCoordinate(Date(input.year, 2, 29), 2) \in DOMAIN worksheet.cells
    /\ <<Calendar_DESCRIPTION, 0>> \in DOMAIN worksheet.cells

----------------------------------------------------------------------------
(* The queries of an initialized HolidayYear, called with any member of
   CountryCode and the dates of the first days of the year. input holds the
   arguments of the last query, output the function and the value returned. *)

\* the members of the enum CountryCode: the countries the API knows
CountryCode == UNION CountryResults

QueryDates == Date(Year, 1, 1)..(Date(Year, 1, 1) + 4 + Margin)

InitQuery ==
    /\ Initialized(FALSE)
    /\ NoDatetimeCall
    /\ NoSheet

\* holiday_year.get_count_for_country_and_date(country_code, date)
GetCountForCountryAndDate ==
    \E country_code \in CountryCode : \E date \in QueryDates :
        /\ input' = [country_code |-> country_code, date |-> date]
        /\ output' = [function |-> "get_count_for_country_and_date",
                      result |-> get_count_for_country_and_date(dates, subdivisions,
                                                                country_code, date)]
        /\ subdivisions' = read_subdivisions(subdivisions, country_code)
        /\ UNCHANGED <<dates, country_code_mapping, sub_task, countries_task, hol_task,
                       running, init_pc, main_pc, error, calls, last, sink, excel_vars>>

\* holiday_year.get_percentage_for_country_and_date(country_code, date)
GetPercentageForCountryAndDate ==
    \E country_code \in CountryCode : \E date \in QueryDates :
        /\ input' = [country_code |-> country_code, date |-> date]
        /\ output' = [function |-> "get_percentage_for_country_and_date",
                      result |-> get_percentage_for_country_and_date(dates, subdivisions,
                                                                     country_code, date)]
        /\ subdivisions' = read_subdivisions(subdivisions, country_code)
        /\ UNCHANGED <<dates, country_code_mapping, sub_task, countries_task, hol_task,
                       running, init_pc, main_pc, error, calls, last, sink, excel_vars>>

NextQuery ==
    \/ GetCountForCountryAndDate
    \/ GetPercentageForCountryAndDate

SpecQuery == InitQuery /\ [][NextQuery]_vars

----------------------------------------------------------------------------
(* The aggregation of the responses of the second gather as a function of
   their order: a HolidayYear whose registry is filled parses up to
   MaxResponses different responses in one order, and a HolidayYear with the
   same registry parses them in another order. input holds the registry and
   the first order, output the coverage (_dates) each order has produced. *)

\* the orders in which up to MaxResponses different responses may be parsed
ResponseOrders ==
    {seq \in UNION {[1..n -> ResponsePool] : n \in 0..MaxResponses} :
        \A i, j \in DOMAIN seq : i < j => seq[i] # seq[j]}

\* the other orders of the responses of seq
Reordered(seq) ==
    {[i \in DOMAIN seq |-> seq[p[i]]] :
        p \in {q \in [DOMAIN seq -> DOMAIN seq] :
                  /\ \A i, j \in DOMAIN seq : i # j => q[i] # q[j]
                  /\ \E i \in DOMAIN seq : q[i] # i}}

InitOrder ==
    /\ HolidayYearConstructed
    /\ NoSheet
    /\ \E reg \in Registries : \E seq \in ResponseOrders :
          input = [registry |-> reg, order |-> seq]
    /\ output = [function |-> "none"]

\* _get_all_holidays: _parse_holiday_response for the responses in the order of input
ParseInOrder ==
    /\ output.function = "none"
    /\ LET r == Parsed(InitDates(Year), input.registry, input.order, 1)
       IN  output' = [function |-> "parsed", order |-> input.order,
                      exc |-> r.exc, dates |-> r.dates]
    /\ UNCHANGED <<holiday_vars, input, excel_vars>>

\* the same responses parsed in another order
ParseInAnotherOrder ==
    /\ output.function = "parsed"
    /\ \E seq \in Reordered(input.order) :
          LET r == Parsed(InitDates(Year), input.registry, seq, 1)
          IN  output' = [function |-> "parsed again", order |-> seq,
                         exc |-> r.exc, dates |-> r.dates,
                         first |-> [exc |-> output.exc, dates |-> output.dates]]
    /\ UNCHANGED <<holiday_vars, input, excel_vars>>

NextOrder ==
    \/ ParseInOrder
    \/ ParseInAnotherOrder

SpecOrder == InitOrder /\ [][NextOrder]_vars

----------------------------------------------------------------------------
(* C21 *)

\* the add_format calls made on a request for a style
RequestedFormats ==
    {i \in DOMAIN formats.added :
        formats.added[i].by \in {"_get_format", "_get_gray_scale_format"}}

\* C21: at any point of the rendering of a sheet, the requests made so far for
\* one style (the same attribute-to-value mapping, the same colour) have all
\* returned the same Format object, and no two add_format calls made on a
\* request have registered the same style.
C21_OneFormatPerStyle ==
    /\ \A r1, r2 \in formats.returned : r1.style = r2.style => r1.format = r2.format
    /\ \A i, j \in RequestedFormats :
          formats.added[i].properties = formats.added[j].properties => i = j

----------------------------------------------------------------------------
(* C22 *)

\* C22: whatever the order in which the same valid intervals (nationwide, or an
\* explicit set of registered region codes) are applied, and so whatever the
\* order in which the fetches of the countries complete, the per-date country
\* entries and the per-region kind tags come out the same, and no order fails.
C22_OrderIndependent ==
    output.function = "parsed again" =>
        /\ output.exc = {} /\ output.first.exc = {}
        /\ output.dates = output.first.dates

\* an explicit response for DE-BY and DE-BY-AU on Jan 2 and the nationwide one for
\* Jan 1 to Jan 2 were parsed explicit first and then nationwide first: Germany is
\* nationwide on Jan 2 and DE-BY carries the public tag
C22_Witness ==
    /\ output.function = "parsed again"
    /\ Len(input.order) >= 2
    /\ \E i, j \in DOMAIN input.order :
          /\ i < j
          /\ ~input.order[i].response.nationwide
          /\ input.order[i].country_code = GERMANY
          /\ "DE-BY-AU" \in input.order[i].response.subdivisions
          /\ input.order[j].response.nationwide
          /\ input.order[j].country_code = GERMANY
          /\ \E k, l \in DOMAIN output.order :
                k < l /\ output.order[k] = input.order[j] /\ output.order[l] = input.order[i]
    /\ LET holiday_date == output.dates[Date(Year, 1, 2)]
       IN  /\ holiday_date.country_codes[GERMANY].nation_wide
           /\ EnumPUBLIC \in holiday_date.holiday_type["DE-BY"]

----------------------------------------------------------------------------
(* C23 *)

\* C23: a call of get_count_for_country_and_date or of
\* get_percentage_for_country_and_date, for any country code and any date of
\* the year, leaves the per-date entries with their kind tags and the
\* subdivision registry, the set of its countries included, as they were.
C23_QueriesReadOnly ==
    [][/\ dates' = dates
       /\ DOMAIN subdivisions' = DOMAIN subdivisions
       /\ subdivisions' = subdivisions]_vars

----------------------------------------------------------------------------
(* C24 *)

\* the holiday pass writes a fill for the row of the code on the date: the row of
\* a region of Germany that is covered, or the row of another country that has
\* an entry
HolidayFillWritten(holiday_date, code) ==
    IF code \in DOMAIN subdivisions[GERMANY]
    THEN Covered(holiday_date, code)
    ELSE code \in DOMAIN holiday_date.country_codes

\* the formats the holiday pass may give the row of the code
HolidayFills(code) ==
    IF code \in DOMAIN subdivisions[GERMANY]
    THEN {PUBLIC_HOLIDAY_FORMAT, SCHOOL_HOLIDAY_FORMAT}
    ELSE {[fg_color |-> GRAY_SCALE[i], font_color |-> "white"] : i \in DOMAIN GRAY_SCALE}

\* the rows of the header block after the last pass that writes them
HeaderRows(ws) ==
    [ws EXCEPT !.cells = [coordinate \in {c \in DOMAIN ws.cells : c[1] <= Overview_HOLIDAY_COUNT}
                             |-> ws.cells[coordinate]]]

\* C24: once YearOverview.write_year has completed, the cell of a region or
\* country row on a Saturday or Sunday shows the weekend fill when the holiday
\* pass wrote no fill for that row on that date and the holiday fill otherwise
\* (the last write of the coordinate); the weekend and the holiday writes go to
\* rows below the header block only, so every cell of the month, week-number,
\* day-number and holiday-count rows has received the one write of its own pass.
C24_LastPassWins ==
    excel_pc = "done" =>
        /\ \A date \in DOMAIN dates : \A i \in DOMAIN state_row_numbers :
              weekday(date) \in {SATURDAY, SUNDAY} =>
                  LET code == state_row_numbers[i][1]
                      cell == Shown(state_row_numbers[i][2].row, day_of_year(date))
                  IN  IF HolidayFillWritten(dates[date], code)
                      THEN cell.cell_format \in HolidayFills(code)
                           /\ cell.cell_format # WEEKEND_FORMAT
                      ELSE cell.cell_format = WEEKEND_FORMAT
        /\ \A coordinate \in DOMAIN worksheet.cells :
              IF coordinate[1] <= Overview_HOLIDAY_COUNT
              THEN /\ Len(worksheet.cells[coordinate]) = 1
                   /\ worksheet.cells[coordinate][1].cell_format
                         \notin {WEEKEND_FORMAT, PUBLIC_HOLIDAY_FORMAT, SCHOOL_HOLIDAY_FORMAT}
                   /\ coordinate[1] = Overview_HOLIDAY_COUNT
                         <=> "font_color" \in DOMAIN worksheet.cells[coordinate][1].cell_format
              ELSE \A k \in DOMAIN worksheet.cells[coordinate] :
                      worksheet.cells[coordinate][k].cell_format
                         \in {NoFormat, WEEKEND_FORMAT} \cup HolidayFills("DE-BW")
                                \cup HolidayFills(FRANCE)

\* the sheet is written; on Saturday, Jan 6, the row of DE-BW received the
\* weekend fill and then the school fill, which it shows, while the row of
\* DE-BY-AU, not covered, shows the weekend fill
C24_Witness ==
    /\ excel_pc = "done"
    /\ LET date == Date(Year, 1, 6)
           column == day_of_year(date)
           bw == Lookup(state_row_numbers, "DE-BW").row
           au == Lookup(state_row_numbers, "DE-BY-AU").row
       IN  /\ Covered(dates[date], "DE-BW")
           /\ ~Covered(dates[date], "DE-BY-AU")
           /\ Len(worksheet.cells[<<bw, column>>]) = 2
           /\ worksheet.cells[<<bw, column>>][1].cell_format = WEEKEND_FORMAT
           /\ Shown(bw, column).cell_format = SCHOOL_HOLIDAY_FORMAT
           /\ Shown(au, column).cell_format = WEEKEND_FORMAT

====
